---- MODULE Spec2Model ----
(***************************************************************************)
(* The edge caching / coalescing gateway of edge-functions/src/index.ts:   *)
(* one worker instance, its module-level in-flight map, the KV cache store *)
(* it reads and writes, and the requests that are in progress on it.       *)
(*                                                                         *)
(* A request is followed from its arrival to its response.  The steps are  *)
(* the places where the handler can be suspended: the await of the cache   *)
(* read, the await of the origin call (or of a joined promise) and the     *)
(* cache write handed to ctx.waitUntil.  Everything the handler does       *)
(* between two awaits is one action.                                       *)
(***************************************************************************)
EXTENDS Integers, Sequences, FiniteSets, TLC

(* ------------------------------ bounds -------------------------------- *)

\* Requests followed in one behaviour.
MaxReqs == 3

\* A cache write handed to ctx.waitUntil lands or fails at most this many
\* milliseconds after the entry's timestamp was taken.
MaxPutDelay == 2

\* Distinct request bodies (distinct cache keys) per endpoint.
MaxBodies == 1

\* Requests followed in one behaviour when malformed traffic is let in.
GatewayReqs == 2

\* The write instants of the entries whose classification is probed.
MaxWrittenAt == 1

\* The longest collection (excludeProductIds, products, cart items, upsell
\* items) of a request whose key is generated.
MaxItems == 3

\* The values of the field a collection is sorted by, and of the fields of
\* an item that the sort does not look at.
ItemIds == {1, 2, 10}
ItemRests == {0, 1}

\* The longest collection of a request whose whole body is followed into
\* the key, and the lengths of the digests of two key strings compared.
MaxKeyedItems == 2
DigestLen == 2

\* Requests followed on the second instance.
MaxRemoteReqs == 2

(* ------------------------- program constants -------------------------- *)

\* isStale: const ONE_HOUR = 3600 * 1000 (milliseconds).
ONE_HOUR == 3600 * 1000

Endpoints == {"product", "cart", "storefront", "upsell", "handle"}

\* expirationTtl of the KV put of each fetcher, in seconds.
ExpirationTtl(ep) ==
    CASE ep = "product"    -> 3600
      [] ep = "cart"       -> 3600
      [] ep = "storefront" -> 300
      [] ep = "upsell"     -> 1800
      [] ep = "handle"     -> 600

\* One prefix for every endpoint.
KeyPrefixShared(ep) == "rec_"

\* The namespace prefix of the key of each endpoint.
KeyPrefix(ep) ==
    CASE ep = "product"    -> "rec_product_"
      [] ep = "cart"       -> "rec_cart_"
      [] ep = "storefront" -> "storefront_"
      [] ep = "upsell"     -> "upsell_"
      [] ep = "handle"     -> "recommendations_"

\* The validated request bodies followed, told apart by their key fields.
Bodies == 1..MaxBodies

\* generate*CacheKey: the prefix and the digest of the body's key fields.
CacheKeyOf(ep, body) == <<KeyPrefix(ep), body>>

Keys == {CacheKeyOf(ep, body) : ep \in Endpoints, body \in Bodies}

\* hashHex: the digest in hexadecimal, always of the same length.
HexDigits == {"0", "9", "a", "f"}
RECURSIVE HexStrings(_)
HexStrings(n) ==
    IF n = 0 THEN {""} ELSE {d \o h : d \in HexDigits, h \in HexStrings(n - 1)}

\* `${prefix}${hashHex}`: the key as the string the store and the map see.
KeyString(ep, hashHex) == KeyPrefix(ep) \o hashHex

\* The message of the 503 after an aborted origin call.
TimeoutMessage(ep) ==
    IF ep = "storefront" THEN "Origin timeout (15s)" ELSE "Origin timeout (10s)"

(* ------------------------------ values -------------------------------- *)

Reqs == 1..MaxReqs

\* Payloads the origin can answer with (opaque JSON values).
Payloads == {1, 2}

NoEtag == <<>>
\* generateEtag: a validator derived from the payload alone.
generateEtag(data) == <<"gen", data>>

\* What a successful origin call delivers: the parsed JSON body and the
\* value of its etag response header, if any.
OriginResponses ==
    { [data |-> 1, etagHeader |-> <<"hdr", 1>>],
      [data |-> 2, etagHeader |-> NoEtag] }

\* The ways an origin call fails: a non-2xx status, fetch() rejecting, the
\* AbortController firing, and the body not being JSON.
FailureKinds == {"status", "network", "timeout", "parse"}

\* A field the request does not carry (undefined), the number parseInt
\* gives for a limit that is not numeric, and the null of JSON.
Undefined == 0
NaN == 0 - 2
Null == 0 - 3

\* CachedResponse, and the null a read gives for an absent key.
\* by is history: the request whose fetch produced the entry.
NoEntry == [data |-> 0, timestamp |-> 0 - 1, etag |-> NoEtag, by |-> 0]
Entry(data, timestamp, etag, by) ==
    [data |-> data, timestamp |-> timestamp, etag |-> etag, by |-> by]

\* A JSON object under a key of the gateway that none of its puts wrote: it
\* decodes, and the timestamp read from it is not a number.
ForeignEntry == Entry(1, NaN, NoEtag, 0)

\* The instants the clock takes: the start, the latest landing of a write
\* scheduled at the start, and both sides of the one-hour boundary.
TimePoints == {0, MaxPutDelay, ONE_HOUR, ONE_HOUR + 1}

\* The body of a 200: JSON.stringify of the payload.
JsonBody(data) == [payload |-> data]

\* The header names of the responses: the three CORS headers of every
\* response the gateway builds itself, and what each constructor adds.
CorsHeaders ==
    {"Access-Control-Allow-Origin", "Access-Control-Allow-Methods",
     "Access-Control-Allow-Headers"}
SuccessHeaders ==
    {"Content-Type", "X-Cache", "X-Response-Time", "X-Powered-By",
     "Cache-Control"} \cup CorsHeaders
ErrorHeaders ==
    {"Content-Type", "X-Response-Time", "X-Powered-By"} \cup CorsHeaders

NoResponse ==
    [status |-> 0, xcache |-> "none", body |-> JsonBody(0), etag |-> NoEtag,
     headers |-> {}]

\* new Response('Not found', { status: 404 }): a text body, no header set.
NotFound ==
    [status |-> 404, xcache |-> "none", body |-> [text |-> "Not found"],
     etag |-> NoEtag, headers |-> {"Content-Type"}]

\* new Response(null, { headers: {...CORS} }): status 200, no body.
OptionsResponse ==
    [status |-> 200, xcache |-> "none", body |-> [empty |-> TRUE],
     etag |-> NoEtag, headers |-> CorsHeaders]

\* An inbound request as the router and the validators see it: whether its
\* path is one of the five, its method, the required fields it carries with
\* a truthy value, whether its body parses (for the handle endpoint: whether
\* the path has its fifth segment), and whether the collection the key
\* generator sorts can be sorted.
Methods == {"GET", "POST", "OPTIONS"}

EndpointMethod(ep) == IF ep \in {"product", "handle"} THEN "GET" ELSE "POST"

RequiredFields(ep) ==
    CASE ep = "product"    -> {"shop", "type", "productId", "productHandle"}
      [] ep = "cart"       -> {"shop", "type"}
      [] ep = "storefront" -> {"cart", "shop"}
      [] ep = "upsell"     -> {"shop", "type", "items", "productId"}
      [] ep = "handle"     -> {"shop", "productHandle"}

\* The field sets followed: all the fields, one missing, or both of the
\* alternative identifiers missing.
FieldSets(ep) ==
    {RequiredFields(ep)}
      \cup {RequiredFields(ep) \ {f} : f \in RequiredFields(ep)}
      \cup {RequiredFields(ep) \ {"productId", "productHandle", "items"}}

Inbounds(ep) ==
    { inb \in [path : {"matched", "other"}, method : Methods,
               fields : FieldSets(ep), parses : BOOLEAN, sortable : BOOLEAN] :
        /\ ep = "product" => inb.parses
        /\ (ep = "handle" /\ ~inb.parses) => "productHandle" \notin inb.fields
        /\ ep \in {"product", "handle"} => inb.sortable
        /\ (ep = "upsell" /\ "items" \notin inb.fields) => inb.sortable }

\* A request that went through Arrive; its inbound form is not followed.
NoInbound ==
    [path |-> "matched", method |-> "none", fields |-> {}, parses |-> TRUE,
     sortable |-> TRUE]

\* No pure function applied yet.
NoProbe == [fn |-> "none", args |-> <<>>, result |-> <<>>]

VARIABLES
    endpoint,   \* the endpoint the requests of this behaviour are routed to
    now,        \* Date.now()
    store,      \* env.CACHE: key -> [entry, expiresAt], NoEntry when never put
    inFlight,   \* inFlightRequests: key -> registering request, 0 when absent
    reqs,       \* the requests, each with its position in its handler
    puts,       \* cache writes handed to ctx.waitUntil and not yet settled
    burst,      \* history: every request so far arrived while all earlier
                \* ones were still in progress
    probe,      \* the pure function applied last, its arguments and result
    remote      \* a second instance: calls[key] is the origin calls it has
                \* outstanding (its in-flight map holds an entry while
                \* there is one), started the requests it has taken so far

vars == <<endpoint, now, store, inFlight, reqs, puts, burst, probe, remote>>

(* ------------------------- pure functions ----------------------------- *)

\* createSuccessResponse
createSuccessResponse(data, cacheStatus, etag) ==
    [status |-> 200, xcache |-> cacheStatus, body |-> JsonBody(data),
     etag |-> etag,
     headers |-> SuccessHeaders \cup (IF etag # NoEtag THEN {"ETag"} ELSE {})]

\* Mutant: the error response is tagged like a success.
createErrorResponseTagged(message, status) ==
    [status |-> status, xcache |-> "MISS",
     body |-> [success |-> FALSE, error |-> message], etag |-> NoEtag,
     headers |-> ErrorHeaders \cup {"X-Cache"}]

\* createErrorResponse: no X-Cache header, no ETag.
createErrorResponse(message, status) ==
    [status |-> status, xcache |-> "none",
     body |-> [success |-> FALSE, error |-> message], etag |-> NoEtag,
     headers |-> ErrorHeaders]

\* Mutant: the window is the expirationTtl of the endpoint being served.
isStalePerEndpoint(cached, t) ==
    t - cached.timestamp > ExpirationTtl(endpoint) * 1000

\* Mutant: no entry is ever classified stale.
isStaleNever(cached, t) == FALSE

\* Mutant: an entry exactly one hour old already counts as stale.
isStaleAtOneHour(cached, t) == t - cached.timestamp >= ONE_HOUR

\* Mutant: the validators check shop and type (cart: shop) and nothing else.
ValidateShopAndTypeOnly(ep, inb) ==
    IF "shop" \notin inb.fields
       \/ (ep \in {"product", "cart", "upsell"} /\ "type" \notin inb.fields)
    THEN "Invalid request parameters" ELSE ""

\* parseProductQueryParams, parse*RequestBody and the path checks of
\* handleThinkRecommendations: the message of the 400, "" when valid.
Validate(ep, inb) ==
    LET has(f) == f \in inb.fields IN
    CASE ep = "product" ->
           IF ~has("shop") \/ ~has("type") THEN "Invalid request parameters"
           ELSE IF ~has("productId") /\ ~has("productHandle")
                THEN "Invalid request parameters" ELSE ""
      [] ep = "cart" ->
           IF ~inb.parses \/ ~has("shop") \/ ~has("type")
           THEN "Invalid request parameters" ELSE ""
      [] ep = "storefront" ->
           IF ~inb.parses \/ ~has("cart") \/ ~has("shop")
           THEN "Invalid request parameters" ELSE ""
      [] ep = "upsell" ->
           IF ~inb.parses \/ ~has("shop") \/ ~has("type")
           THEN "Invalid request parameters"
           ELSE IF ~has("items") /\ ~has("productId")
                THEN "Invalid request parameters" ELSE ""
      [] ep = "handle" ->
           IF ~inb.parses THEN "Invalid URL format"
           ELSE IF ~has("shop") \/ ~has("productHandle")
                THEN "Missing shop or product handle" ELSE ""

\* generate*CacheKey throws a TypeError: .sort, .map or .localeCompare is
\* applied to a value that has no such method.
KeyGenerationThrows(ep, inb) ==
    ep \in {"cart", "storefront", "upsell"} /\ ~inb.sortable

\* Mutant: each handler answers OPTIONS itself, after its method check.
EarlyReturnOptionsInHandler(ep, inb) ==
    IF inb.path # "matched" THEN NotFound
    ELSE IF inb.method # EndpointMethod(ep)
         THEN createErrorResponse("Method not allowed", 405)
    ELSE IF inb.method = "OPTIONS" THEN OptionsResponse
    ELSE IF Validate(ep, inb) # ""
         THEN createErrorResponse(Validate(ep, inb), 400)
    ELSE IF KeyGenerationThrows(ep, inb)
         THEN createErrorResponse("Internal server error", 500)
    ELSE NoResponse

\* Mutant: the unmatched path is answered with the error envelope.
EarlyReturnNotFoundEnvelope(ep, inb) ==
    IF inb.path # "matched" THEN createErrorResponse("Not found", 404)
    ELSE IF inb.method = "OPTIONS" THEN OptionsResponse
    ELSE IF inb.method # EndpointMethod(ep)
         THEN createErrorResponse("Method not allowed", 405)
    ELSE IF Validate(ep, inb) # ""
         THEN createErrorResponse(Validate(ep, inb), 400)
    ELSE IF KeyGenerationThrows(ep, inb)
         THEN createErrorResponse("Internal server error", 500)
    ELSE NoResponse

\* Mutant: the handler validates the request before it checks the method.
EarlyReturnValidatesFirst(ep, inb) ==
    IF inb.path # "matched" THEN NotFound
    ELSE IF inb.method = "OPTIONS" THEN OptionsResponse
    ELSE IF Validate(ep, inb) # ""
         THEN createErrorResponse(Validate(ep, inb), 400)
    ELSE IF inb.method # EndpointMethod(ep)
         THEN createErrorResponse("Method not allowed", 405)
    ELSE IF KeyGenerationThrows(ep, inb)
         THEN createErrorResponse("Internal server error", 500)
    ELSE NoResponse

\* fetch and the head of the handler it routes to: the response returned
\* before any cache key exists, NoResponse when the request goes on.
EarlyReturn(ep, inb) ==
    IF inb.path # "matched" THEN NotFound
    ELSE IF inb.method = "OPTIONS" THEN OptionsResponse
    ELSE IF inb.method # EndpointMethod(ep)
         THEN createErrorResponse("Method not allowed", 405)
    ELSE IF Validate(ep, inb) # ""
         THEN createErrorResponse(Validate(ep, inb), 400)
    ELSE IF KeyGenerationThrows(ep, inb)
         THEN createErrorResponse("Internal server error", 500)
    ELSE NoResponse

\* isStale, evaluated at instant t.  Date.now() - cached.timestamp is NaN
\* when the timestamp is not a number, and NaN > ONE_HOUR is false.
isStale(cached, t) ==
    cached.timestamp # NaN /\ t - cached.timestamp > ONE_HOUR

\* What KV holds for key at instant t: nothing once the TTL has run out.
KvGet(key, t) ==
    IF store[key].entry # NoEntry /\ t < store[key].expiresAt
    THEN store[key].entry ELSE NoEntry

\* getCachedResponse: the stored entry, and null when the read throws.
getCachedResponse(key, readFails) ==
    IF readFails THEN NoEntry ELSE KvGet(key, now)

\* Mutant: the copy is rebuilt as a plain 200 and loses the cache status.
CloneDropsStatus(response) ==
    [response EXCEPT !.status = 200, !.xcache = "none"]

\* Response.clone()
Clone(response) == response

\* Mutant: the fetcher ignores the stale entry it was handed.
OriginFailureNoFallback(ep, staleCache, kind) ==
    createErrorResponse(
        IF kind = "timeout" THEN TimeoutMessage(ep) ELSE "Origin unavailable",
        503)

\* Mutant: the failure without fallback is reported as an internal error.
OriginFailureAs500(ep, staleCache, kind) ==
    IF staleCache # NoEntry
    THEN createSuccessResponse(staleCache.data, "STALE", staleCache.etag)
    ELSE createErrorResponse("Internal server error", 500)

\* The catch block and the !originResponse.ok branch of the fetchers.
OriginFailureResponse(ep, staleCache, kind) ==
    IF staleCache # NoEntry
    THEN createSuccessResponse(staleCache.data, "STALE", staleCache.etag)
    ELSE createErrorResponse(
            IF kind = "timeout" THEN TimeoutMessage(ep) ELSE "Origin unavailable",
            503)

\* Mutant: the entry handed to the store holds another payload than the one
\* the response carries.
FreshEntryOtherPayload(o, r) ==
    Entry(o.data + 1, now,
          IF o.etagHeader # NoEtag THEN o.etagHeader ELSE generateEtag(o.data),
          r)

\* The entry a fetcher builds from a successful origin response.
FreshEntry(o, r) ==
    Entry(o.data, now,
          IF o.etagHeader # NoEtag THEN o.etagHeader ELSE generateEtag(o.data),
          r)

\* Mutant: the fetchers tag what they fetched as a cache hit.
OriginSuccessTaggedHit(o, hasKey) ==
    createSuccessResponse(
        o.data, "HIT",
        IF o.etagHeader # NoEtag THEN o.etagHeader ELSE generateEtag(o.data))

\* The success return of the fetchers; cacheKey is null for an action.
OriginSuccessResponse(o, hasKey) ==
    createSuccessResponse(
        o.data, IF hasKey THEN "MISS" ELSE "BYPASS", FreshEntry(o, 0).etag)

(* ------------------------------ state --------------------------------- *)

\* pc, body, action, cached and resp are the handler's own state; the other
\* fields are history: role (how the handler went on after its read), joined
\* (the request whose promise it awaits), calls and writes (origin calls
\* started and cache writes scheduled by it), outcome and fetched (how its
\* origin call ended and the payload it delivered).
IdleReq ==
    [pc |-> "idle", body |-> 1, action |-> FALSE, cached |-> NoEntry,
     role |-> "none", joined |-> 0, calls |-> 0, writes |-> 0,
     outcome |-> "none", fetched |-> 0,
     resp |-> NoResponse, inbound |-> NoInbound]

Init ==
    /\ endpoint \in Endpoints
    /\ now = 0
    /\ store = [k \in Keys |-> [entry |-> NoEntry, expiresAt |-> 0]]
    /\ inFlight = [k \in Keys |-> 0]
    /\ reqs = [r \in Reqs |-> IdleReq]
    /\ puts = {}
    /\ burst = TRUE
    /\ probe = NoProbe
    /\ remote = [calls |-> [k \in Keys |-> 0], started |-> 0]

KeyOf(r) == CacheKeyOf(endpoint, reqs[r].body)

(* ------------------------------ actions ------------------------------- *)

\* A request is answered by the router, or by the head of its handler,
\* before a cache key is computed.
Reject(r, inb) ==
    /\ reqs[r].pc = "idle"
    /\ \A q \in Reqs : q < r => reqs[q].pc # "idle"
    /\ EarlyReturn(endpoint, inb) # NoResponse
    /\ reqs' = [reqs EXCEPT ![r] =
                  [@ EXCEPT !.pc = "done", !.role = "rejected",
                            !.inbound = inb,
                            !.resp = EarlyReturn(endpoint, inb)]]
    /\ burst' = (burst /\ \A q \in Reqs : q < r => reqs[q].pc # "done")
    /\ UNCHANGED <<endpoint, now, store, inFlight, puts, probe, remote>>

\* Mutant: a request with actionType takes the cacheable path.
ArriveActionCached(r, body, action) ==
    /\ reqs[r].pc = "idle"
    /\ \A q \in Reqs : q < r => reqs[q].pc # "idle"
    /\ action => endpoint = "storefront"
    /\ reqs' = [reqs EXCEPT ![r] =
                  [@ EXCEPT !.body = body, !.action = action,
                            !.pc = "reading"]]
    /\ burst' = (burst /\ \A q \in Reqs : q < r => reqs[q].pc # "done")
    /\ UNCHANGED <<endpoint, now, store, inFlight, puts, probe, remote>>

\* A valid request reaches its handler.  A cacheable request computes its key
\* and starts the cache read; a storefront request with actionType calls
\* fetchStorefrontFromOrigin(env, body, null, null, ...) directly.
Arrive(r, body, action) ==
    /\ reqs[r].pc = "idle"
    /\ \A q \in Reqs : q < r => reqs[q].pc # "idle"
    /\ action => endpoint = "storefront"
    /\ reqs' = [reqs EXCEPT ![r] =
                  [@ EXCEPT !.body = body, !.action = action,
                            !.pc = IF action THEN "fetching" ELSE "reading",
                            !.role = IF action THEN "bypass" ELSE "none",
                            !.calls = IF action THEN 1 ELSE 0]]
    /\ burst' = (burst /\ \A q \in Reqs : q < r => reqs[q].pc # "done")
    /\ UNCHANGED <<endpoint, now, store, inFlight, puts, probe, remote>>

\* The cache read returns a fresh entry: the handler answers HIT.
CacheHit(r, readFails) ==
    LET cached == getCachedResponse(KeyOf(r), readFails) IN
    /\ reqs[r].pc = "reading"
    /\ cached # NoEntry /\ ~isStale(cached, now)
    /\ reqs' = [reqs EXCEPT ![r] =
                  [@ EXCEPT !.pc = "done", !.role = "hit", !.cached = cached,
                            !.resp = createSuccessResponse(
                                        cached.data, "HIT", cached.etag)]]
    /\ UNCHANGED <<endpoint, now, store, inFlight, puts, burst, probe, remote>>

\* Mutant: the lookup never finds the promise of another request.
ExistingRequestNeverFound(key) == 0

\* The lookup in the in-flight map that follows a read with no fresh entry.
ExistingRequest(key) == inFlight[key]

\* The cache read returns nothing fresh and the map holds a promise for the
\* key: the handler awaits that promise.
JoinInFlight(r, readFails) ==
    LET cached == getCachedResponse(KeyOf(r), readFails) IN
    /\ reqs[r].pc = "reading"
    /\ ~(cached # NoEntry /\ ~isStale(cached, now))
    /\ ExistingRequest(KeyOf(r)) # 0
    /\ reqs' = [reqs EXCEPT ![r] =
                  [@ EXCEPT !.pc = "joined", !.role = "joiner",
                            !.cached = cached,
                            !.joined = ExistingRequest(KeyOf(r))]]
    /\ UNCHANGED <<endpoint, now, store, inFlight, puts, burst, probe, remote>>

\* Mutant: the set is separated from the lookup by an await, so the handler
\* registers on the strength of a lookup that is no longer true.
RegisterAfterAwait(r, readFails) ==
    LET cached == getCachedResponse(KeyOf(r), readFails) IN
    /\ reqs[r].pc = "reading"
    /\ ~(cached # NoEntry /\ ~isStale(cached, now))
    /\ reqs' = [reqs EXCEPT ![r] =
                  [@ EXCEPT !.pc = "fetching", !.role = "registrant",
                            !.cached = cached, !.calls = @ + 1]]
    /\ inFlight' = [inFlight EXCEPT ![KeyOf(r)] = r]
    /\ UNCHANGED <<endpoint, now, store, puts, burst, probe, remote>>

\* The cache read returns nothing fresh and the map holds nothing for the
\* key: the handler starts the fetcher and registers its promise, with no
\* await between the lookup and the set.
RegisterAndFetch(r, readFails) ==
    LET cached == getCachedResponse(KeyOf(r), readFails) IN
    /\ reqs[r].pc = "reading"
    /\ ~(cached # NoEntry /\ ~isStale(cached, now))
    /\ ExistingRequest(KeyOf(r)) = 0
    /\ reqs' = [reqs EXCEPT ![r] =
                  [@ EXCEPT !.pc = "fetching", !.role = "registrant",
                            !.cached = cached,
                            !.calls = @ + 1]]
    /\ inFlight' = [inFlight EXCEPT ![KeyOf(r)] = r]
    /\ UNCHANGED <<endpoint, now, store, puts, burst, probe, remote>>

\* Mutant: the handler returns without a finally block.
DeregisterNothing(r) == inFlight

\* The finally block of the registering handler.
Deregister(r) ==
    IF reqs[r].role = "registrant"
    THEN [inFlight EXCEPT ![KeyOf(r)] = 0]
    ELSE inFlight

\* Mutant: the fetcher returns without handing the entry to the store.
OriginSuccessNoWrite(r, o) ==
    LET hasKey == ~reqs[r].action IN
    /\ reqs[r].pc = "fetching"
    /\ reqs' = [reqs EXCEPT ![r] =
                  [@ EXCEPT !.pc = "done", !.outcome = "ok", !.fetched = o.data,
                            !.resp = OriginSuccessResponse(o, hasKey)]]
    /\ inFlight' = Deregister(r)
    /\ UNCHANGED <<endpoint, now, store, puts, burst, probe, remote>>

\* The origin answers 2xx with a JSON body: the fetcher hands the fresh entry
\* to ctx.waitUntil(env.CACHE.put(...)) and returns; the registering handler
\* resumes first and its finally block deletes the map entry.
OriginSuccess(r, o) ==
    LET hasKey == ~reqs[r].action IN
    /\ reqs[r].pc = "fetching"
    /\ reqs' = [reqs EXCEPT ![r] =
                  [@ EXCEPT !.pc = "done", !.outcome = "ok", !.fetched = o.data,
                            !.writes = IF hasKey THEN @ + 1 ELSE @,
                            !.resp = OriginSuccessResponse(o, hasKey)]]
    /\ puts' = IF hasKey
               THEN puts \cup {[key |-> KeyOf(r), entry |-> FreshEntry(o, r),
                                ttl |-> ExpirationTtl(endpoint)]}
               ELSE puts
    /\ inFlight' = Deregister(r)
    /\ UNCHANGED <<endpoint, now, store, burst, probe, remote>>

\* Mutant: the map entry is deleted after the await instead of in a finally
\* block, so the failure path leaves it behind.
OriginFailureNoCleanup(r, kind) ==
    /\ reqs[r].pc = "fetching"
    /\ reqs' = [reqs EXCEPT ![r] =
                  [@ EXCEPT !.pc = "done", !.outcome = "failed",
                            !.resp = OriginFailureResponse(
                                        endpoint, reqs[r].cached, kind)]]
    /\ UNCHANGED <<endpoint, now, store, inFlight, puts, burst, probe, remote>>

\* Mutant: the catch block writes the fallback entry back with a new
\* timestamp before serving it.
OriginFailureRefreshesStale(r, kind) ==
    /\ reqs[r].pc = "fetching"
    /\ reqs' = [reqs EXCEPT ![r] =
                  [@ EXCEPT !.pc = "done", !.outcome = "failed",
                            !.resp = OriginFailureResponse(
                                        endpoint, reqs[r].cached, kind)]]
    /\ puts' = IF reqs[r].cached # NoEntry
               THEN puts \cup {[key |-> KeyOf(r),
                                entry |-> [reqs[r].cached EXCEPT !.timestamp = now],
                                ttl |-> ExpirationTtl(endpoint)]}
               ELSE puts
    /\ inFlight' = Deregister(r)
    /\ UNCHANGED <<endpoint, now, store, burst, probe, remote>>

\* The origin call fails: stale fallback or 503, then the finally block.
OriginFailure(r, kind) ==
    /\ reqs[r].pc = "fetching"
    /\ reqs' = [reqs EXCEPT ![r] =
                  [@ EXCEPT !.pc = "done", !.outcome = "failed",
                            !.resp = OriginFailureResponse(
                                        endpoint, reqs[r].cached, kind)]]
    /\ inFlight' = Deregister(r)
    /\ UNCHANGED <<endpoint, now, store, puts, burst, probe, remote>>

\* A joined handler resumes once the promise it awaits has settled.
JoinerReturn(r) ==
    /\ reqs[r].pc = "joined"
    /\ reqs[reqs[r].joined].pc = "done"
    /\ reqs' = [reqs EXCEPT ![r] =
                  [@ EXCEPT !.pc = "done",
                            !.resp = Clone(reqs[reqs[r].joined].resp)]]
    /\ UNCHANGED <<endpoint, now, store, inFlight, puts, burst, probe, remote>>

\* env.CACHE.put completes: the entry replaces what the key held and expires
\* expirationTtl seconds from now.
PutDone(w) ==
    /\ w \in puts
    /\ store' = [store EXCEPT ![w.key] =
                   [entry |-> w.entry, expiresAt |-> now + w.ttl * 1000]]
    /\ puts' = puts \ {w}
    /\ UNCHANGED <<endpoint, now, inFlight, reqs, burst, probe, remote>>

\* Mutant: the rejection of the put reaches the request that scheduled it.
PutFailSurfaces(w) ==
    /\ w \in puts
    /\ puts' = puts \ {w}
    /\ reqs' = [reqs EXCEPT ![w.entry.by].resp =
                  createErrorResponse("Internal server error", 500)]
    /\ UNCHANGED <<endpoint, now, store, inFlight, burst, probe, remote>>

\* env.CACHE.put rejects: waitUntil absorbs the rejection.
PutFail(w) ==
    /\ w \in puts
    /\ puts' = puts \ {w}
    /\ UNCHANGED <<endpoint, now, store, inFlight, reqs, burst, probe, remote>>

\* Time passes, never beyond the moment a pending write must have settled.
Advance(t) ==
    /\ t > now
    /\ \A w \in puts : t - w.entry.timestamp <= MaxPutDelay
    /\ now' = t
    /\ UNCHANGED <<endpoint, store, inFlight, reqs, puts, burst, probe, remote>>

Next ==
    \/ \E r \in Reqs, body \in Bodies, action \in BOOLEAN : Arrive(r, body, action)
    \/ \E r \in Reqs, readFails \in BOOLEAN : CacheHit(r, readFails)
    \/ \E r \in Reqs, readFails \in BOOLEAN : JoinInFlight(r, readFails)
    \/ \E r \in Reqs, readFails \in BOOLEAN : RegisterAndFetch(r, readFails)
    \/ \E r \in Reqs, o \in OriginResponses : OriginSuccess(r, o)
    \/ \E r \in Reqs, kind \in FailureKinds : OriginFailure(r, kind)
    \/ \E r \in Reqs : JoinerReturn(r)
    \/ \E w \in puts : PutDone(w)
    \/ \E w \in puts : PutFail(w)
    \/ \E t \in TimePoints : Advance(t)

Spec == Init /\ [][Next]_vars

\* ctx.waitUntil keeps the instance alive until the put it was handed has
\* settled, one way or the other.
PutSettles == \E w \in puts : PutDone(w) \/ PutFail(w)

\* Every await of a handler settles: the cache read resolves or rejects and
\* the origin fetch is answered or aborted by its timeout.
HandlerSteps ==
    \E r \in Reqs :
        \/ \E readFails \in BOOLEAN :
              \/ CacheHit(r, readFails)
              \/ JoinInFlight(r, readFails)
              \/ RegisterAndFetch(r, readFails)
        \/ \E o \in OriginResponses : OriginSuccess(r, o)
        \/ \E kind \in FailureKinds : OriginFailure(r, kind)
        \/ JoinerReturn(r)

LiveSpec == Spec /\ WF_vars(PutSettles) /\ WF_vars(HandlerSteps)

\* The gateway under all traffic: requests that the router or the head of
\* a handler answers at once, next to the validated ones.
GatewayNext ==
    \/ \E r \in 1..GatewayReqs, inb \in Inbounds(endpoint) : Reject(r, inb)
    \/ \E r \in 1..GatewayReqs, body \in Bodies, action \in BOOLEAN :
          Arrive(r, body, action)
    \/ \E r \in Reqs, readFails \in BOOLEAN : CacheHit(r, readFails)
    \/ \E r \in Reqs, readFails \in BOOLEAN : JoinInFlight(r, readFails)
    \/ \E r \in Reqs, readFails \in BOOLEAN : RegisterAndFetch(r, readFails)
    \/ \E r \in Reqs, o \in OriginResponses : OriginSuccess(r, o)
    \/ \E r \in Reqs, kind \in FailureKinds : OriginFailure(r, kind)
    \/ \E r \in Reqs : JoinerReturn(r)
    \/ \E w \in puts : PutDone(w)
    \/ \E w \in puts : PutFail(w)
    \/ \E t \in TimePoints : Advance(t)

GatewaySpec == Init /\ [][GatewayNext]_vars

\* Another writer of the KV namespace puts, under a key of the endpoint and
\* without expiration, a value that is not a CachedResponse.
ForeignPut(key) ==
    /\ key[1] = KeyPrefix(endpoint)
    /\ store[key].entry # ForeignEntry
    /\ store' = [store EXCEPT ![key] =
                   [entry |-> ForeignEntry, expiresAt |-> ONE_HOUR + 2]]
    /\ UNCHANGED <<endpoint, now, inFlight, reqs, puts, burst, probe, remote>>

\* Mutant: the second instance starts a call without looking into its map.
RemoteRegisterUnchecked(key, readFails) ==
    LET cached == getCachedResponse(key, readFails) IN
    /\ key[1] = KeyPrefix(endpoint)
    /\ remote.started < MaxRemoteReqs
    /\ ~(cached # NoEntry /\ ~isStale(cached, now))
    /\ remote' = [calls |-> [remote.calls EXCEPT ![key] = @ + 1],
                  started |-> remote.started + 1]
    /\ UNCHANGED <<endpoint, now, store, inFlight, reqs, puts, burst, probe>>

\* A request on the second instance reads the shared store, finds nothing
\* fresh and no entry for the key in the map of its own instance: it starts
\* an origin call and registers it there.  The map of the first instance is
\* memory of another isolate and is not looked at.
RemoteRegister(key, readFails) ==
    LET cached == getCachedResponse(key, readFails) IN
    /\ key[1] = KeyPrefix(endpoint)
    /\ remote.started < MaxRemoteReqs
    /\ ~(cached # NoEntry /\ ~isStale(cached, now))
    /\ remote.calls[key] = 0
    /\ remote' = [calls |-> [remote.calls EXCEPT ![key] = 1],
                  started |-> remote.started + 1]
    /\ UNCHANGED <<endpoint, now, store, inFlight, reqs, puts, burst, probe>>

\* The origin call of the second instance succeeds: the entry is handed to
\* waitUntil for the shared store and the map entry is deleted.
RemoteSuccess(key, o) ==
    /\ remote.calls[key] > 0
    /\ remote' = [remote EXCEPT !.calls[key] = @ - 1]
    /\ puts' = puts \cup {[key |-> key, entry |-> FreshEntry(o, 0),
                           ttl |-> ExpirationTtl(endpoint)]}
    /\ UNCHANGED <<endpoint, now, store, inFlight, reqs, burst, probe>>

\* The origin call of the second instance fails: the map entry is deleted.
RemoteFailure(key) ==
    /\ remote.calls[key] > 0
    /\ remote' = [remote EXCEPT !.calls[key] = @ - 1]
    /\ UNCHANGED <<endpoint, now, store, inFlight, reqs, puts, burst, probe>>

\* The gateway on a KV namespace it shares with other writers.
SharedStoreNext ==
    \/ \E r \in 1..GatewayReqs, body \in Bodies, action \in BOOLEAN :
          Arrive(r, body, action)
    \/ \E r \in Reqs, readFails \in BOOLEAN : CacheHit(r, readFails)
    \/ \E r \in Reqs, readFails \in BOOLEAN : JoinInFlight(r, readFails)
    \/ \E r \in Reqs, readFails \in BOOLEAN : RegisterAndFetch(r, readFails)
    \/ \E r \in Reqs, o \in OriginResponses : OriginSuccess(r, o)
    \/ \E r \in Reqs, kind \in FailureKinds : OriginFailure(r, kind)
    \/ \E r \in Reqs : JoinerReturn(r)
    \/ \E w \in puts : PutDone(w)
    \/ \E w \in puts : PutFail(w)
    \/ \E t \in TimePoints : Advance(t)
    \/ \E key \in Keys : ForeignPut(key)

SharedStoreSpec == Init /\ [][SharedStoreNext]_vars

\* Two instances of the gateway on one KV namespace.
FleetNext ==
    \/ \E r \in 1..GatewayReqs, body \in Bodies, action \in BOOLEAN :
          Arrive(r, body, action)
    \/ \E r \in Reqs, readFails \in BOOLEAN : CacheHit(r, readFails)
    \/ \E r \in Reqs, readFails \in BOOLEAN : JoinInFlight(r, readFails)
    \/ \E r \in Reqs, readFails \in BOOLEAN : RegisterAndFetch(r, readFails)
    \/ \E r \in Reqs, o \in OriginResponses : OriginSuccess(r, o)
    \/ \E r \in Reqs, kind \in FailureKinds : OriginFailure(r, kind)
    \/ \E r \in Reqs : JoinerReturn(r)
    \/ \E w \in puts : PutDone(w)
    \/ \E w \in puts : PutFail(w)
    \/ \E t \in TimePoints : Advance(t)
    \/ \E key \in Keys, readFails \in BOOLEAN : RemoteRegister(key, readFails)
    \/ \E key \in Keys, o \in OriginResponses : RemoteSuccess(key, o)
    \/ \E key \in Keys : RemoteFailure(key)

FleetSpec == Init /\ [][FleetNext]_vars

\* The origin sends a 2xx status line and headers and then stops sending:
\* fetch() has resolved, clearTimeout(timeoutId) has run, and the handler
\* is suspended in await originResponse.json() with no timer left to abort
\* it.  Nothing in the gateway resumes the request from here.
OriginStalls(r) ==
    /\ reqs[r].pc = "fetching"
    /\ reqs' = [reqs EXCEPT ![r].pc = "stalled"]
    /\ UNCHANGED <<endpoint, now, store, inFlight, puts, burst, probe, remote>>

\* The gateway before an origin that may stop in the middle of a response.
\* What the gateway awaits and can settle does settle: cache reads, origin
\* calls that are answered, fail or are aborted by their timer, joined
\* promises that are settled, and the writes handed to waitUntil.
StallNext ==
    \/ \E r \in 1..GatewayReqs, body \in Bodies, action \in BOOLEAN :
          Arrive(r, body, action)
    \/ \E r \in Reqs, readFails \in BOOLEAN : CacheHit(r, readFails)
    \/ \E r \in Reqs, readFails \in BOOLEAN : JoinInFlight(r, readFails)
    \/ \E r \in Reqs, readFails \in BOOLEAN : RegisterAndFetch(r, readFails)
    \/ \E r \in Reqs, o \in OriginResponses : OriginSuccess(r, o)
    \/ \E r \in Reqs, kind \in FailureKinds : OriginFailure(r, kind)
    \/ \E r \in Reqs : JoinerReturn(r)
    \/ \E w \in puts : PutDone(w)
    \/ \E w \in puts : PutFail(w)
    \/ \E t \in TimePoints : Advance(t)
    \/ \E r \in Reqs : OriginStalls(r)

StallSpec ==
    Init /\ [][StallNext]_vars /\ WF_vars(PutSettles) /\ WF_vars(HandlerSteps)

(* ----------------- the pure functions, applied alone ------------------ *)

\* The durations the code names, in milliseconds: the window of isStale and
\* the expirationTtl of the five fetchers.
Durations == {ONE_HOUR} \cup {ExpirationTtl(ep) * 1000 : ep \in Endpoints}

\* An item of the collection that goes into the key: the field it is sorted
\* by (the element itself for excludeProductIds and products, variant_id for
\* cart items, productId for upsell items) and the rest of what the key
\* serializes of it (quantity and properties; variantId), which a string or
\* a number does not have.
Items(ep) ==
    [id : ItemIds,
     rest : IF ep \in {"storefront", "upsell"} THEN ItemRests ELSE {0}]

\* The collections submitted; the handle endpoint has none.
Collections(ep) ==
    IF ep = "handle" THEN {<<>>}
    ELSE UNION {[1..n -> Items(ep)] : n \in 0..MaxItems}

\* String(n): the decimal digits of a number.
RECURSIVE DecimalString(_)
DecimalString(n) ==
    IF n < 10 THEN <<n>> ELSE Append(DecimalString(n \div 10), n % 10)

\* The order of two strings by code units: negative, zero or positive.
RECURSIVE StringCompare(_, _)
StringCompare(a, b) ==
    IF a = <<>> /\ b = <<>> THEN 0
    ELSE IF a = <<>> THEN 0 - 1
    ELSE IF b = <<>> THEN 1
    ELSE IF Head(a) # Head(b) THEN Head(a) - Head(b)
    ELSE StringCompare(Tail(a), Tail(b))

\* The comparator of each key generator: .sort() without argument compares
\* the elements as strings (product, cart); (a, b) => a.id - b.id
\* (storefront); a.productId.localeCompare(b.productId) (upsell).
CompareFn(ep, a, b) ==
    IF ep = "storefront" THEN a.id - b.id
    ELSE StringCompare(DecimalString(a.id), DecimalString(b.id))

\* Array.prototype.sort, which is stable: elements the comparator calls
\* equal keep the order they came in.
RECURSIVE Sort(_, _)
Sort(ep, items) ==
    IF items = <<>> THEN <<>>
    ELSE LET n      == Len(items)
             last   == items[n]
             sorted == Sort(ep, SubSeq(items, 1, n - 1))
             before == {i \in 1..(n - 1) : CompareFn(ep, sorted[i], last) <= 0}
             k      == IF before = {} THEN 0
                       ELSE CHOOSE i \in before : \A j \in before : j <= i
         IN SubSeq(sorted, 1, k) \o <<last>> \o SubSeq(sorted, k + 1, n - 1)

\* generate*CacheKey of a body with the collection items, its other key
\* fields being fixed: the prefix and the SHA-256 digest of the JSON of the
\* key data, which is taken to differ whenever the JSON differs.
generateCacheKey(ep, items) == CacheKeyOf(ep, Sort(ep, items))

\* The orders in which a collection can be submitted.
Reorderings(items) ==
    {[i \in 1..Len(items) |-> items[p[i]]] : p \in Permutations(1..Len(items))}

\* The key generator of the endpoint applied to two bodies that differ in
\* the order of the collection only.
GenerateKeys(first, second) ==
    /\ probe = NoProbe
    /\ probe' = [fn |-> "generateCacheKey", args |-> <<first, second>>,
                 result |-> <<generateCacheKey(endpoint, first),
                              generateCacheKey(endpoint, second)>>]
    /\ UNCHANGED <<endpoint, now, store, inFlight, reqs, puts, burst, remote>>

\* The validated bodies, as the parsers of the endpoint hand them on
\* (parseProductQueryParams, parse*RequestBody, the path segments of the
\* handle endpoint).  A field the interface of the endpoint does not have
\* is Undefined.  cartToken is body.cartToken (product, cart) or
\* body.cart.token (storefront); items is excludeProductIds, products,
\* cart.items or items.
Optional == {Undefined, 1}
FieldValues(ep) ==
    [shop          |-> {1, 2},
     type          |-> IF ep \in {"product", "cart", "upsell"}
                       THEN {1, 2} ELSE {Undefined},
     productId     |-> IF ep \in {"product", "upsell"}
                       THEN Optional ELSE {Undefined},
     productHandle |-> IF ep = "product" THEN Optional
                       ELSE IF ep = "handle" THEN {1, 2} ELSE {Undefined},
     variantId     |-> IF ep = "upsell" THEN Optional ELSE {Undefined},
     layout        |-> IF ep \in {"product", "cart"}
                       THEN Optional ELSE {Undefined},
     limit         |-> IF ep = "product" THEN {Undefined, 1, NaN}
                       ELSE IF ep = "cart" THEN {Undefined, 1, Null}
                       ELSE {Undefined},
     cartToken     |-> IF ep \in {"product", "cart", "storefront"}
                       THEN Optional ELSE {Undefined},
     cartTotal     |-> IF ep = "storefront" THEN Optional ELSE {Undefined},
     itemCount     |-> IF ep = "storefront" THEN Optional ELSE {Undefined}]

KeyedCollections(ep) == {c \in Collections(ep) : Len(c) <= MaxKeyedItems}

\* The bodies that pass validation: a product request names the product by
\* id or by handle.  The collection is present (an empty excludeProductIds
\* parameter is the parameter left out).
RequestBodies(ep) ==
    LET of == FieldValues(ep)
    IN {body \in [shop : of.shop, type : of.type, productId : of.productId,
                  productHandle : of.productHandle, variantId : of.variantId,
                  layout : of.layout, limit : of.limit,
                  cartToken : of.cartToken, cartTotal : of.cartTotal,
                  itemCount : of.itemCount, items : KeyedCollections(ep)] :
          ep = "product" =>
             (body.productId # Undefined \/ body.productHandle # Undefined)}

\* JSON.stringify of a number: NaN is written as null.
JsonValue(v) == IF v = NaN THEN Null ELSE v

\* A keyData that leaves the shop out.
KeyDataWithoutShop(ep, body) ==
    [type |-> body.type, productId |-> body.productId,
     productHandle |-> body.productHandle, variantId |-> body.variantId,
     layout |-> body.layout, limit |-> body.limit,
     cartToken |-> body.cartToken, cartTotal |-> body.cartTotal,
     itemCount |-> body.itemCount, items |-> Sort(ep, body.items)]

\* A keyData that leaves the limit out.
KeyDataWithoutLimit(ep, body) ==
    [shop |-> body.shop, type |-> body.type, productId |-> body.productId,
     productHandle |-> body.productHandle, layout |-> body.layout,
     cartToken |-> body.cartToken, items |-> Sort(ep, body.items)]

\* The keyData object of each generator as JSON.stringify writes it: the
\* fields it names, a field that is undefined being left out (here: kept
\* as Undefined, which no present field equals), the collection sorted.
KeyData(ep, body) ==
    CASE ep = "product" ->
           [shop |-> body.shop, productId |-> body.productId,
            productHandle |-> body.productHandle, type |-> body.type,
            layout |-> body.layout, limit |-> JsonValue(body.limit),
            items |-> Sort(ep, body.items)]
      [] ep = "cart" ->
           [shop |-> body.shop, type |-> body.type,
            items |-> Sort(ep, body.items), layout |-> body.layout,
            limit |-> JsonValue(body.limit)]
      [] ep = "storefront" ->
           [shop |-> body.shop, cartToken |-> body.cartToken,
            cartTotal |-> body.cartTotal, itemCount |-> body.itemCount,
            items |-> Sort(ep, body.items)]
      [] ep = "upsell" ->
           [shop |-> body.shop, type |-> body.type,
            items |-> Sort(ep, body.items), productId |-> body.productId,
            variantId |-> body.variantId]
      [] ep = "handle" ->
           [shop |-> body.shop, productHandle |-> body.productHandle]

\* generate*CacheKey of a whole body.
generateCacheKeyOfBody(ep, body) == CacheKeyOf(ep, KeyData(ep, body))

\* The bodies that differ from a body in at most one field.
ScalarFields ==
    {"shop", "type", "productId", "productHandle", "variantId", "layout",
     "limit", "cartToken", "cartTotal", "itemCount"}
Variations(ep, body) ==
    ({[body EXCEPT ![f] = v] : f \in ScalarFields, v \in UNION
         {FieldValues(ep)[g] : g \in ScalarFields}} \cap RequestBodies(ep))
      \cup {[body EXCEPT !.items = c] : c \in KeyedCollections(ep)}

\* The key generator of the endpoint applied to two validated bodies.
GenerateKeyPair(first, second) ==
    /\ probe = NoProbe
    /\ probe' = [fn |-> "generateCacheKeyOfBody", args |-> <<first, second>>,
                 result |-> <<generateCacheKeyOfBody(endpoint, first),
                              generateCacheKeyOfBody(endpoint, second)>>]
    /\ UNCHANGED <<endpoint, now, store, inFlight, reqs, puts, burst, remote>>

\* The request body after its key was generated: body.excludeProductIds
\* ?.sort() and body.products?.sort() sort the array of the body itself; the
\* storefront and upsell generators sort the array that map() returned.
BodyAfterKey(ep, body) ==
    IF ep \in {"product", "cart"}
    THEN [body EXCEPT !.items = Sort(ep, body.items)]
    ELSE body

\* What the fetcher sends to the origin: the product fetcher builds a query
\* from shop, type, productId, productHandle, layout and cartToken; the
\* cart, storefront and upsell fetchers send JSON.stringify(body); the
\* handle fetcher puts shop and productHandle into the path.
ForwardedRequest(ep, body) ==
    CASE ep = "product" ->
           [shop |-> body.shop, type |-> body.type,
            productId |-> body.productId,
            productHandle |-> body.productHandle, layout |-> body.layout,
            cartToken |-> body.cartToken]
      [] ep = "handle" ->
           [shop |-> body.shop, productHandle |-> body.productHandle]
      [] OTHER -> body

\* A handler generates the key of a validated body and then hands the body
\* to its fetcher.
KeyThenForward(body) ==
    /\ probe = NoProbe
    /\ probe' = [fn |-> "forward", args |-> <<body>>,
                 result |-> <<BodyAfterKey(endpoint, body),
                              ForwardedRequest(endpoint,
                                  BodyAfterKey(endpoint, body))>>]
    /\ UNCHANGED <<endpoint, now, store, inFlight, reqs, puts, burst, remote>>

\* The hosts the access headers are meant for.
ProtectedHosts == {"tunnel.magicsell.ai", "api.magicsell.ai"}

\* Values of env.ORIGIN_URL (for the handle endpoint: THINK_ORIGIN_URL), as
\* the pieces the string is made of: a scheme, the pieces of the host and
\* the pieces of a path.  The pieces are such that a protected name occurs
\* in the string exactly where it is one of the pieces.
OriginHosts ==
    {<<"origin.example.net">>}
      \cup {<<name>> : name \in ProtectedHosts}
      \cup {<<"my", name>> : name \in ProtectedHosts}
      \cup {<<name, ".example.net">> : name \in ProtectedHosts}
OriginUrls ==
    [host : OriginHosts,
     path : {<<>>, <<"/proxy/">>, <<"/proxy/", "api.magicsell.ai">>}]

\* The concatenation of the pieces.
RECURSIVE Concat(_)
Concat(pieces) ==
    IF pieces = <<>> THEN "" ELSE Head(pieces) \o Concat(Tail(pieces))

\* new URL(url).host
HostOf(url) == Concat(url.host)

\* url.includes(name), for a protected name.
Includes(url, name) ==
    \/ \E i \in 1..Len(url.host) : url.host[i] = name
    \/ \E i \in 1..Len(url.path) : url.path[i] = name

\* The headers of the origin call of each fetcher: the four fetchers of
\* ORIGIN_URL add the two access headers when the URL includes one of the
\* two names; fetchRecommendationsFromOrigin never adds them.
AccessHeaders == {"CF-Access-Client-Id", "CF-Access-Client-Secret"}
OriginCallHeaders(ep, url) ==
    {"Accept", "User-Agent"}
      \cup (IF ep \in {"cart", "storefront", "upsell"}
            THEN {"Content-Type"} ELSE {})
      \cup (IF /\ ep # "handle"
               /\ \/ Includes(url, "tunnel.magicsell.ai")
                  \/ Includes(url, "api.magicsell.ai")
            THEN AccessHeaders ELSE {})

\* The fetcher of the endpoint builds the headers of its origin call, the
\* origin being configured as url.
BuildOriginHeaders(url) ==
    /\ probe = NoProbe
    /\ probe' = [fn |-> "originHeaders", args |-> <<url>>,
                 result |-> <<HostOf(url), OriginCallHeaders(endpoint, url)>>]
    /\ UNCHANGED <<endpoint, now, store, inFlight, reqs, puts, burst, remote>>

\* What the catch block of a fetcher can be handed, with the message of the
\* error as the pieces it is made of: the Error the fetcher throws itself on
\* a non-2xx status, the AbortError of the aborted fetch, the TypeError of a
\* failed connection, and the SyntaxError of originResponse.json(), whose
\* message quotes the start of the text that did not parse (a body that is
\* an HTML page, a body that is the word aborted).
OriginErrors ==
    { [kind |-> "status",  message |-> <<"Origin returned ", "500">>],
      [kind |-> "timeout", message |-> <<"The operation was ", "abort", "ed">>],
      [kind |-> "network", message |-> <<"Network connection lost.">>],
      [kind |-> "parse",
       message |-> <<"Unexpected token <, ", "<html>", " is not valid JSON">>],
      [kind |-> "parse",
       message |-> <<"Unexpected token a, ", "abort", "ed is not valid JSON">>] }

\* error.message.includes('abort')
IncludesAbort(message) == \E i \in 1..Len(message) : message[i] = "abort"

\* errorMessage of the 503 of a fetcher.
FailureMessage(ep, error) ==
    IF IncludesAbort(error.message) THEN TimeoutMessage(ep)
    ELSE "Origin unavailable"

\* The catch block of the fetcher of the endpoint, without a stale entry,
\* handed an error.
CatchWithoutFallback(error) ==
    /\ probe = NoProbe
    /\ probe' = [fn |-> "catch", args |-> <<error>>,
                 result |-> createErrorResponse(
                               FailureMessage(endpoint, error), 503)]
    /\ UNCHANGED <<endpoint, now, store, inFlight, reqs, puts, burst, remote>>

\* url.pathname as the segments between its slashes.  The paths followed:
\* the five documented ones, paths of the handle form whose shop and
\* productHandle segments are names that also occur in other paths, and
\* paths of no endpoint.
Segments == {"shop-a", "sneaker", "api", "storefront"}
ProductPath    == <<"api", "v2", "recommendation", "product">>
CartPath       == <<"api", "v2", "recommendation", "cart">>
StorefrontPath == <<"api", "storefront">>
UpsellPath     == <<"api", "v2", "funnel", "upsell">>
HandlePrefix   == <<"recommendations", "handle">>
Pathnames ==
    {ProductPath, CartPath, StorefrontPath, UpsellPath, <<"health">>,
     <<"proxy">> \o StorefrontPath}
      \cup {HandlePrefix \o <<shop, handle>> :
               shop \in Segments, handle \in Segments}

\* pathname.includes('/' + the segments of needle joined by '/'), for names
\* none of which is the beginning of another.
PathIncludes(pathname, needle) ==
    \E i \in 0..(Len(pathname) - Len(needle)) :
       SubSeq(pathname, i + 1, i + Len(needle)) = needle

\* pathname.startsWith('/recommendations/handle/')
PathStartsWithHandle(pathname) ==
    /\ Len(pathname) > Len(HandlePrefix)
    /\ SubSeq(pathname, 1, Len(HandlePrefix)) = HandlePrefix

\* The handler fetch() dispatches a path to: the five flags, the 404 when
\* none is set, and the if / else-if chain in its order.
Route(pathname) ==
    LET isProductEndpoint    == PathIncludes(pathname, ProductPath)
        isCartEndpoint       == PathIncludes(pathname, CartPath)
        isStorefrontEndpoint == PathIncludes(pathname, StorefrontPath)
        isUpsellEndpoint     == PathIncludes(pathname, UpsellPath)
        isThinkRecommendationsEndpoint == PathStartsWithHandle(pathname)
    IN IF isProductEndpoint THEN "product"
       ELSE IF isCartEndpoint THEN "cart"
       ELSE IF isStorefrontEndpoint THEN "storefront"
       ELSE IF isUpsellEndpoint THEN "upsell"
       ELSE IF isThinkRecommendationsEndpoint THEN "handle"
       ELSE "unmatched"

\* fetch() classifies the path of a request.
Dispatch(pathname) ==
    /\ probe = NoProbe
    /\ probe' = [fn |-> "route", args |-> <<pathname>>,
                 result |-> Route(pathname)]
    /\ UNCHANGED <<endpoint, now, store, inFlight, reqs, puts, burst, remote>>

\* The ages probed: each duration, one millisecond less and one more.
ProbedAges == {d + e : d \in Durations, e \in {0 - 1, 0, 1}}

\* isStale applied, in a handler of the endpoint, to an entry written at
\* writtenAt and read at the instant t.
Classify(writtenAt, t) ==
    /\ probe = NoProbe
    /\ probe' = [fn |-> "isStale", args |-> <<writtenAt, t>>,
                 result |-> isStale(Entry(1, writtenAt, NoEtag, 0), t)]
    /\ UNCHANGED <<endpoint, now, store, inFlight, reqs, puts, burst, remote>>

ProbeNext ==
    \/ /\ probe = NoProbe
       /\ \E writtenAt \in 0..MaxWrittenAt, age \in ProbedAges :
             Classify(writtenAt, writtenAt + age)
    \/ /\ probe = NoProbe
       /\ \E first \in Collections(endpoint) :
             \E second \in Reorderings(first) : GenerateKeys(first, second)
    \/ /\ probe = NoProbe
       /\ \E first \in RequestBodies(endpoint) :
             \E second \in Variations(endpoint, first) :
                GenerateKeyPair(first, second)
    \/ /\ probe = NoProbe
       /\ \E body \in RequestBodies(endpoint) : KeyThenForward(body)
    \/ /\ probe = NoProbe
       /\ \E url \in OriginUrls : BuildOriginHeaders(url)
    \/ /\ probe = NoProbe
       /\ \E error \in OriginErrors : CatchWithoutFallback(error)
    \/ /\ probe = NoProbe
       /\ \E pathname \in Pathnames : Dispatch(pathname)

ProbeSpec == Init /\ [][ProbeNext]_vars

(* ------------------------------ claims -------------------------------- *)

Keyed(r) == reqs[r].pc # "idle" /\ ~reqs[r].action
SameKey(r, q) == Keyed(r) /\ Keyed(q) /\ reqs[r].body = reqs[q].body
Outstanding(r) == Keyed(r) /\ reqs[r].pc = "fetching"

\* C1 as stated, read with an origin that answers every call: when all the
\* requests so far were in progress together, go to the same key and none of
\* them read an entry, the origin is called once for all of them and each
\* response is a 200 with the same payload.
C1_ExactlyOnceAll200 ==
    (/\ burst
     /\ \A r \in Reqs : reqs[r].outcome # "failed"
     /\ \A r, q \in Reqs : Keyed(r) /\ Keyed(q) => SameKey(r, q))
    => /\ Cardinality({r \in Reqs : Keyed(r) /\ reqs[r].calls > 0}) <= 1
       /\ \A r, q \in Reqs :
            (Keyed(r) /\ Keyed(q) /\ reqs[r].pc = "done" /\ reqs[q].pc = "done"
               /\ reqs[r].cached = NoEntry /\ reqs[q].cached = NoEntry)
            => /\ reqs[r].resp.status = 200
               /\ reqs[r].resp.body = reqs[q].resp.body

\* C1 (amended): among requests for one key that read no entry, an origin
\* call is started only once every earlier call for the key has settled; a
\* request that found the call outstanding makes none of its own and gets the
\* response of the request that made it: 200 with the payload the origin
\* delivered when the call succeeded, 503 when it failed.
C1_CoalescedWhileOutstanding ==
    \A r, q \in Reqs :
        (r # q /\ SameKey(r, q)
           /\ reqs[r].cached = NoEntry /\ reqs[q].cached = NoEntry)
        => /\ (Outstanding(q) /\ reqs[r].calls > 0) => reqs[r].pc = "done"
           /\ (reqs[q].role = "joiner" /\ reqs[q].joined = r)
              => /\ reqs[q].calls = 0 /\ reqs[r].calls = 1
                 /\ reqs[q].pc = "done"
                    => /\ reqs[q].resp = reqs[r].resp
                       /\ reqs[r].outcome = "ok"
                          => /\ reqs[q].resp.status = 200
                             /\ reqs[q].resp.body = JsonBody(reqs[r].fetched)
                       /\ reqs[r].outcome = "failed"
                          => reqs[q].resp.status = 503

\* Two requests that arrived together for an uncached key: one called the
\* origin, the other joined it, and both hold the same 200.
C1_Witness ==
    \E r, q \in Reqs :
        /\ burst /\ r # q /\ SameKey(r, q)
        /\ reqs[r].pc = "done" /\ reqs[q].pc = "done"
        /\ reqs[r].cached = NoEntry /\ reqs[q].cached = NoEntry
        /\ reqs[q].role = "joiner" /\ reqs[q].joined = r
        /\ reqs[r].outcome = "ok" /\ reqs[q].resp.status = 200
        /\ reqs[q].resp.body = JsonBody(reqs[r].fetched)

\* C2: at every instant at most one origin call is outstanding per cache
\* key, and it is the call of the request the in-flight map names for the key.
C2_AtMostOneOutstanding ==
    \A k \in Keys :
        LET calling == {r \in Reqs : Outstanding(r) /\ KeyOf(r) = k} IN
        /\ Cardinality(calling) <= 1
        /\ calling = IF inFlight[k] = 0 THEN {} ELSE {inFlight[k]}

\* A call is outstanding for a key while one request has joined it and
\* another is still reading the cache for the same key.
C2_Witness ==
    \E r, q, z \in Reqs :
        /\ Outstanding(r) /\ inFlight[KeyOf(r)] = r
        /\ SameKey(r, q) /\ reqs[q].pc = "joined" /\ reqs[q].joined = r
        /\ SameKey(r, z) /\ reqs[z].pc = "reading"

\* C3: a request that found an in-flight entry makes no origin call and
\* schedules no write, returns only after the registering request's call
\* has settled, and returns that request's response unchanged; its return
\* leaves the map entry of a later call for the key in place.
C3_JoinerReturnsCopy ==
    \A q \in Reqs :
        reqs[q].role = "joiner"
        => LET r == reqs[q].joined IN
           /\ r \in Reqs /\ r # q /\ SameKey(r, q)
           /\ reqs[r].role = "registrant"
           /\ reqs[q].calls = 0 /\ reqs[q].writes = 0
           /\ reqs[q].outcome = "none"
           /\ reqs[q].pc \in {"joined", "done"}
           /\ reqs[q].pc = "joined" => reqs[q].resp = NoResponse
           /\ reqs[q].pc = "done"
              => /\ reqs[r].pc = "done"
                 /\ reqs[q].resp.status = reqs[r].resp.status
                 /\ reqs[q].resp.body = reqs[r].resp.body
                 /\ reqs[q].resp.xcache = reqs[r].resp.xcache
                 /\ \A z \in Reqs :
                      (SameKey(z, q) /\ Outstanding(z)) => inFlight[KeyOf(z)] = z

\* A joiner has returned the stale fallback its registering request produced.
C3_Witness ==
    \E q \in Reqs :
        /\ reqs[q].role = "joiner" /\ reqs[q].pc = "done"
        /\ reqs[q].resp.xcache = "STALE"
        /\ reqs[q].resp = reqs[reqs[q].joined].resp

\* C4: the in-flight entry of a key names a request exactly while that
\* request's registered origin call is outstanding: it is there during the
\* call and gone once the registering request has returned, however the call
\* ended.
C4_EntryLivesWithCall ==
    \A r \in Reqs :
        /\ reqs[r].role = "registrant"
           => /\ reqs[r].pc \in {"fetching", "done"}
              /\ reqs[r].pc = "fetching" => inFlight[KeyOf(r)] = r
              /\ reqs[r].pc = "done" => inFlight[KeyOf(r)] # r
        /\ \A k \in Keys : inFlight[k] = r => reqs[r].role = "registrant"

\* Registering requests have returned on each exit path (MISS, STALE, 503)
\* and the map holds nothing for their key.
C4_Witness ==
    \E a, b, c \in Reqs :
        /\ reqs[a].role = "registrant" /\ reqs[a].resp.xcache = "MISS"
        /\ reqs[b].role = "registrant" /\ reqs[b].resp.xcache = "STALE"
        /\ reqs[c].role = "registrant" /\ reqs[c].resp.status = 503
        /\ \A k \in Keys : inFlight[k] = 0

\* The requests whose response depends on the origin call of r.
DependsOn(q, r) ==
    \/ q = r /\ reqs[r].role = "registrant"
    \/ reqs[q].role = "joiner" /\ reqs[q].joined = r

ErrorBody(message) == [success |-> FALSE, error |-> message]

\* C5: a request whose read returned a stale entry and whose origin call
\* failed answers 200, tagged STALE, with the payload and the etag of that
\* entry, on every endpoint.
C5_StaleOnFailure ==
    \A r \in Reqs :
        (reqs[r].outcome = "failed" /\ reqs[r].cached # NoEntry)
        => /\ now - reqs[r].cached.timestamp > ONE_HOUR
           /\ reqs[r].resp.status = 200
           /\ reqs[r].resp.xcache = "STALE"
           /\ reqs[r].resp.body = JsonBody(reqs[r].cached.data)
           /\ reqs[r].resp.etag = reqs[r].cached.etag

\* A registering request has degraded to the stale entry it had read.
C5_Witness ==
    \E r \in Reqs :
        /\ reqs[r].role = "registrant" /\ reqs[r].outcome = "failed"
        /\ reqs[r].cached # NoEntry /\ reqs[r].cached.data \in Payloads
        /\ reqs[r].resp.xcache = "STALE"

\* C6: a request whose read returned nothing and whose origin call failed
\* answers 503 with the body {success:false, error:<message>}, and no cache
\* write of it is pending or stored.
C6_FailHardWithoutFallback ==
    \A r \in Reqs :
        (reqs[r].outcome = "failed" /\ reqs[r].cached = NoEntry)
        => /\ reqs[r].resp.status = 503
           /\ reqs[r].resp.xcache = "none"
           /\ reqs[r].resp.body
                \in {ErrorBody("Origin unavailable"),
                     ErrorBody(TimeoutMessage(endpoint))}
           /\ reqs[r].writes = 0
           /\ \A w \in puts : w.entry.by # r
           /\ \A k \in Keys : store[k].entry.by # r

\* A request with nothing read has answered 503 after a timeout.
C6_Witness ==
    \E r \in Reqs :
        /\ reqs[r].role = "registrant" /\ reqs[r].outcome = "failed"
        /\ reqs[r].cached = NoEntry /\ reqs[r].resp.status = 503
        /\ reqs[r].resp.body = ErrorBody(TimeoutMessage(endpoint))

\* C7 as stated: a request whose response depends on a failed origin call
\* and that has read an entry for its key from the store answers 200 tagged
\* STALE, whether it registered the call or joined it.
C7_StaleWheneverEntryExists ==
    \A r, q \in Reqs :
        (/\ DependsOn(q, r) /\ reqs[q].pc = "done"
         /\ reqs[r].outcome = "failed"
         /\ reqs[q].cached # NoEntry)
        => /\ reqs[q].resp.status = 200
           /\ reqs[q].resp.xcache = "STALE"

\* C8: a request whose cache read returns an entry at most one hour old
\* answers 200, tagged HIT, with the payload and etag of the entry, and that
\* step starts no origin call, leaves the in-flight map alone and schedules
\* no write.
C8_FreshEntryIsHit ==
    [][\A r \in Reqs :
          (/\ reqs[r].pc = "reading" /\ reqs'[r].pc # "reading"
           /\ reqs'[r].cached # NoEntry
           /\ now - reqs'[r].cached.timestamp <= ONE_HOUR)
          => /\ reqs'[r].pc = "done"
             /\ reqs'[r].resp.status = 200
             /\ reqs'[r].resp.xcache = "HIT"
             /\ reqs'[r].resp.body = JsonBody(reqs'[r].cached.data)
             /\ reqs'[r].resp.etag = reqs'[r].cached.etag
             /\ reqs'[r].calls = 0 /\ reqs'[r].writes = 0
             /\ reqs'[r].outcome = "none"
             /\ inFlight' = inFlight /\ puts' = puts /\ store' = store]_vars

\* A request has been answered HIT from an entry exactly one hour old.
C8_Witness ==
    \E r \in Reqs :
        /\ reqs[r].pc = "done" /\ reqs[r].role = "hit"
        /\ reqs[r].resp.xcache = "HIT"
        /\ reqs[r].cached.data \in Payloads
        /\ now - reqs[r].cached.timestamp = ONE_HOUR

\* C9: when the origin call of a cacheable request succeeds, the response is
\* 200, tagged MISS, with the payload the origin delivered, whatever the
\* request had read, and the step hands exactly one write to the store: the
\* fresh entry, under the request's key and the endpoint's TTL.
C9_MissPassesThroughAndWrites ==
    [][\A r \in Reqs :
          (/\ reqs[r].pc = "fetching" /\ ~reqs[r].action
           /\ reqs'[r].outcome = "ok")
          => /\ reqs'[r].pc = "done"
             /\ reqs'[r].resp.status = 200
             /\ reqs'[r].resp.xcache = "MISS"
             /\ reqs'[r].resp.body = JsonBody(reqs'[r].fetched)
             /\ reqs'[r].resp.etag # NoEtag
             /\ reqs'[r].writes = 1
             /\ puts \subseteq puts'
             /\ puts' \ puts =
                  {[key |-> KeyOf(r),
                    entry |-> Entry(reqs'[r].fetched, now,
                                    reqs'[r].resp.etag, r),
                    ttl |-> ExpirationTtl(endpoint)]}
             /\ store' = store]_vars

\* A request that had read a stale entry has answered MISS with a payload
\* that differs from the stale one, and its write is pending.
C9_Witness ==
    \E r \in Reqs :
        /\ reqs[r].outcome = "ok" /\ reqs[r].resp.xcache = "MISS"
        /\ reqs[r].cached # NoEntry
        /\ reqs[r].resp.body # JsonBody(reqs[r].cached.data)
        /\ \E w \in puts : w.entry.by = r /\ w.entry.data = reqs[r].fetched

\* The request whose successful origin call produced the response: it is
\* the one whose cache write was handed to the store.
Missed(r) == reqs[r].outcome = "ok" /\ ~reqs[r].action

\* C10 as stated: after a MISS response an entry holding the fetched payload
\* is eventually stored under the request's key.
C10_EventuallyStored ==
    \A r \in Reqs :
        (Missed(r) /\ reqs[r].resp.xcache = "MISS")
        ~> (/\ store[KeyOf(r)].entry.by = r
            /\ store[KeyOf(r)].entry.data = reqs[r].fetched)

\* C10 (amended): after a MISS response the scheduled write eventually
\* settles; whatever the store holds from a request is the payload and etag
\* of that request's MISS response, under the key an identical request
\* computes; and a request whose cache read finds such an entry, unexpired
\* and at most one hour old, is answered HIT with the body and etag of that
\* MISS response without calling the origin, unless the read itself failed.
C10_StoredEntryServesHit ==
    /\ \A r \in Reqs :
         (Missed(r) /\ reqs[r].resp.xcache = "MISS")
         ~> (\A w \in puts : w.entry.by # r)
    /\ [](\A k \in Keys :
            LET r == store[k].entry.by IN
            r # 0 => /\ r \in Reqs /\ Missed(r) /\ k = KeyOf(r)
                     /\ reqs[r].resp.xcache = "MISS"
                     /\ reqs[r].resp.body = JsonBody(store[k].entry.data)
                     /\ reqs[r].resp.etag = store[k].entry.etag
                     /\ store[k].expiresAt
                          <= now + ExpirationTtl(endpoint) * 1000)
    /\ [][\A q \in Reqs :
            LET held == store[KeyOf(q)] IN
            (/\ reqs[q].pc = "reading" /\ reqs'[q].pc # "reading"
             /\ held.entry.by # 0 /\ now < held.expiresAt
             /\ now - held.entry.timestamp <= ONE_HOUR
             /\ reqs'[q].cached # NoEntry)
            => /\ reqs'[q].pc = "done"
               /\ reqs'[q].cached = held.entry
               /\ reqs'[q].resp.status = 200
               /\ reqs'[q].resp.xcache = "HIT"
               /\ reqs'[q].resp.body = reqs[held.entry.by].resp.body
               /\ reqs'[q].resp.etag = reqs[held.entry.by].resp.etag
               /\ reqs'[q].calls = 0]_vars

\* A request that arrived after a MISS had returned and its write had landed
\* has been answered HIT with the body of that MISS, with no origin call.
C10_Witness ==
    \E r, q \in Reqs :
        /\ r < q /\ SameKey(r, q) /\ ~burst
        /\ Missed(r) /\ reqs[r].resp.xcache = "MISS"
        /\ store[KeyOf(r)].entry.by = r
        /\ reqs[q].pc = "done" /\ reqs[q].role = "hit"
        /\ reqs[q].cached.by = r /\ reqs[q].calls = 0
        /\ reqs[q].resp.xcache = "HIT"
        /\ reqs[q].resp.body = reqs[r].resp.body

\* C11: the handler that leaves its cache read answers HIT exactly when the
\* read returned an entry whose age is at most one hour (the boundary
\* included); an entry older than that is passed on as the fallback, and a
\* read that returned nothing is neither: its request is never answered HIT,
\* and when its own origin call fails the answer is the 503, never STALE.
C11_FreshStaleAbsent ==
    /\ [][\A r \in Reqs :
            (reqs[r].pc = "reading" /\ reqs'[r].pc # "reading")
            => LET c == reqs'[r].cached IN
               /\ (reqs'[r].role = "hit")
                    <=> (c # NoEntry /\ now - c.timestamp <= ONE_HOUR)
               /\ (reqs'[r].role \in {"registrant", "joiner"})
                    <=> (c = NoEntry \/ now - c.timestamp > ONE_HOUR)]_vars
    /\ [](\A r \in Reqs :
            /\ (reqs[r].outcome = "failed" /\ reqs[r].cached = NoEntry)
               => /\ reqs[r].resp.xcache # "STALE"
                  /\ reqs[r].resp.status = 503
            /\ (reqs[r].outcome # "none" /\ reqs[r].resp.xcache = "STALE")
               => /\ reqs[r].cached # NoEntry
                  /\ reqs[r].resp.body = JsonBody(reqs[r].cached.data))

\* One entry has been classified on both sides of the boundary: a request
\* that read it at the age of exactly one hour was answered HIT, and a
\* request that read it a millisecond later went on to the origin with it.
C11_Witness ==
    \E q, r \in Reqs :
        /\ reqs[q].role = "hit" /\ reqs[r].role = "registrant"
        /\ reqs[q].cached = reqs[r].cached /\ reqs[r].cached # NoEntry
        /\ reqs[r].pc = "fetching"
        /\ now - reqs[r].cached.timestamp = ONE_HOUR + 1

\* The freshness windows C12 gives the endpoints, in milliseconds.
ClaimedWindow(ep) ==
    CASE ep = "product"    -> 60 * 60 * 1000
      [] ep = "cart"       -> 60 * 60 * 1000
      [] ep = "storefront" -> 5 * 60 * 1000
      [] ep = "upsell"     -> 30 * 60 * 1000
      [] ep = "handle"     -> 10 * 60 * 1000

\* C12 as stated: on each endpoint an entry is fresh one millisecond before
\* the end of that endpoint's window (1 h, 1 h, 5 min, 30 min, 10 min) and
\* stale one millisecond after it.
C12_WindowOfTheEndpoint ==
    probe.fn = "isStale"
    => LET age == probe.args[2] - probe.args[1] IN
       /\ age = ClaimedWindow(endpoint) - 1 => probe.result = FALSE
       /\ age = ClaimedWindow(endpoint) + 1 => probe.result = TRUE

\* C12 (amended): every endpoint classifies against the same window of one
\* hour: an entry is fresh up to and including the age of one hour and stale
\* after it, whichever endpoint is served.
C12_OneHourOnEveryEndpoint ==
    probe.fn = "isStale"
    => LET age == probe.args[2] - probe.args[1] IN
       probe.result = (age > ONE_HOUR)

\* On the storefront endpoint an entry one millisecond older than five
\* minutes has been classified, and found fresh.
C12_Witness ==
    /\ probe.fn = "isStale" /\ endpoint = "storefront"
    /\ probe.args[2] - probe.args[1] = ClaimedWindow("storefront") + 1
    /\ probe.result = FALSE

\* C13 as stated: the store keeps an entry longer than the window that
\* classifies it, so an entry that has become stale is still returned by a
\* read of its key.
C13_StaleEntryStillHeld ==
    \A k \in Keys :
        (store[k].entry # NoEntry /\ isStale(store[k].entry, now))
        => /\ ExpirationTtl(endpoint) * 1000 > ONE_HOUR
           /\ KvGet(k, now) = store[k].entry

\* C14 as stated: a storefront request with actionType reads no entry,
\* registers and joins nothing, writes nothing, and its response is tagged
\* BYPASS whatever the outcome of its origin call.
C14_BypassAlwaysTagged ==
    \A r \in Reqs :
        (reqs[r].action /\ reqs[r].pc = "done")
        => /\ reqs[r].cached = NoEntry /\ reqs[r].joined = 0
           /\ reqs[r].writes = 0
           /\ reqs[r].resp.xcache = "BYPASS"

\* C14 (amended): a storefront request with actionType goes straight to the
\* origin: it is never at a cache read, is never in the in-flight map nor
\* joined to or by another request, and nothing of it is written or pending;
\* none of its steps changes the store, the map or the pending writes.  When
\* its origin call succeeds the response is the origin's payload tagged
\* BYPASS; when the call fails it is the 503, which carries no X-Cache.
C14_BypassTouchesNoCache ==
    /\ [](\A r \in Reqs :
            /\ reqs[r].pc # "idle"
               => (reqs[r].action <=> reqs[r].role = "bypass")
            /\ reqs[r].action
               => /\ endpoint = "storefront"
                  /\ reqs[r].pc \in {"fetching", "done"}
                  /\ reqs[r].cached = NoEntry /\ reqs[r].joined = 0
                  /\ reqs[r].calls = 1 /\ reqs[r].writes = 0
                  /\ \A k \in Keys : inFlight[k] # r /\ store[k].entry.by # r
                  /\ \A w \in puts : w.entry.by # r
                  /\ \A q \in Reqs : reqs[q].joined # r
                  /\ reqs[r].outcome = "ok"
                     => /\ reqs[r].resp.status = 200
                        /\ reqs[r].resp.xcache = "BYPASS"
                        /\ reqs[r].resp.body = JsonBody(reqs[r].fetched)
                  /\ reqs[r].outcome = "failed"
                     => /\ reqs[r].resp.status = 503
                        /\ reqs[r].resp.xcache = "none"
                        /\ "X-Cache" \notin reqs[r].resp.headers)
    /\ [][\A r \in Reqs :
            (reqs'[r].action /\ reqs'[r] # reqs[r])
            => store' = store /\ inFlight' = inFlight /\ puts' = puts]_vars

\* While a cacheable storefront request for the same cart holds the map
\* entry, one request with actionType has been answered BYPASS and another
\* the untagged 503.
C14_Witness ==
    \E r, q, z \in Reqs :
        /\ reqs[r].action /\ reqs[r].resp.xcache = "BYPASS"
        /\ reqs[q].action /\ reqs[q].resp.status = 503
        /\ ~reqs[z].action /\ reqs[z].pc = "fetching"
        /\ inFlight[KeyOf(z)] = z /\ reqs[z].body = reqs[r].body

\* A request answered before a key existed has touched nothing: it made no
\* origin call, read no entry, joined nothing, wrote nothing and is not in
\* the in-flight map.
Untouched(r) ==
    /\ reqs[r].pc = "done"
    /\ reqs[r].calls = 0 /\ reqs[r].writes = 0 /\ reqs[r].joined = 0
    /\ reqs[r].cached = NoEntry /\ reqs[r].outcome = "none"
    /\ \A k \in Keys : inFlight[k] # r /\ store[k].entry.by # r
    /\ \A w \in puts : w.entry.by # r

\* The step that answers a request at once leaves the store, the in-flight
\* map and the pending writes as they were.
AnsweredAtOnce(r) ==
    (reqs[r].pc = "idle" /\ reqs'[r].role = "rejected")
    => store' = store /\ inFlight' = inFlight /\ puts' = puts

\* The required fields of C15: a request lacks one when shop is missing, or
\* type (product, cart, upsell), or cart (storefront), or every identifier
\* (productId and productHandle; items and productId), or a path segment.
LacksRequiredField(ep, fields) ==
    \/ "shop" \notin fields
    \/ ep \in {"product", "cart", "upsell"} /\ "type" \notin fields
    \/ ep = "product" /\ fields \cap {"productId", "productHandle"} = {}
    \/ ep = "storefront" /\ "cart" \notin fields
    \/ ep = "upsell" /\ fields \cap {"items", "productId"} = {}
    \/ ep = "handle" /\ "productHandle" \notin fields

\* C15: a request that reaches validation (matched path, the method of the
\* endpoint) and lacks a required field of the endpoint is answered 400 with
\* the error envelope, whatever else it carries; it never goes on to a cache
\* key, and it has touched neither cache nor in-flight map nor origin.
C15_MissingFieldIs400 ==
    /\ [](\A inb \in Inbounds(endpoint) :
            (/\ inb.path = "matched" /\ inb.method = EndpointMethod(endpoint)
             /\ LacksRequiredField(endpoint, inb.fields))
            => EarlyReturn(endpoint, inb).status = 400)
    /\ [](\A r \in Reqs :
            (/\ reqs[r].role = "rejected"
             /\ reqs[r].inbound.path = "matched"
             /\ reqs[r].inbound.method = EndpointMethod(endpoint)
             /\ LacksRequiredField(endpoint, reqs[r].inbound.fields))
            => /\ reqs[r].resp.status = 400
               /\ reqs[r].resp.body
                    \in {ErrorBody("Invalid request parameters"),
                         ErrorBody("Invalid URL format"),
                         ErrorBody("Missing shop or product handle")}
               /\ Untouched(r))
    /\ [][\A r \in Reqs : AnsweredAtOnce(r)]_vars

\* A request with every field but an identifier has been answered 400 while
\* a validated request for the same endpoint was calling the origin.
C15_Witness ==
    \E r, q \in Reqs :
        /\ reqs[r].role = "rejected" /\ reqs[r].resp.status = 400
        /\ reqs[r].inbound.parses /\ reqs[r].inbound.sortable
        /\ {"shop", "type"} \subseteq reqs[r].inbound.fields
        /\ LacksRequiredField(endpoint, reqs[r].inbound.fields)
        /\ reqs[q].pc = "fetching" /\ reqs[q].role = "registrant"

\* C16: a request to a matched path whose method is neither OPTIONS nor the
\* method of the endpoint is answered 405 'Method not allowed', whether or
\* not its body parses and its fields are there, and has touched neither
\* cache nor in-flight map nor origin.
C16_WrongMethodIs405 ==
    /\ [](\A inb \in Inbounds(endpoint) :
            (/\ inb.path = "matched"
             /\ inb.method \notin {"OPTIONS", EndpointMethod(endpoint)})
            => EarlyReturn(endpoint, inb)
                 = createErrorResponse("Method not allowed", 405))
    /\ [](\A r \in Reqs :
            (/\ reqs[r].role = "rejected"
             /\ reqs[r].inbound.path = "matched"
             /\ reqs[r].inbound.method
                  \notin {"OPTIONS", EndpointMethod(endpoint)})
            => /\ reqs[r].resp.status = 405
               /\ reqs[r].resp.body = ErrorBody("Method not allowed")
               /\ Untouched(r))
    /\ [][\A r \in Reqs : AnsweredAtOnce(r)]_vars

\* A request with the wrong method and without its shop has been answered
\* 405, not 400.
C16_Witness ==
    \E r \in Reqs :
        /\ reqs[r].role = "rejected" /\ reqs[r].resp.status = 405
        /\ reqs[r].inbound.method # EndpointMethod(endpoint)
        /\ "shop" \notin reqs[r].inbound.fields

\* C17 as stated: every OPTIONS request gets the CORS answer with no body,
\* whatever its path.
C17_OptionsSameOnEveryPath ==
    \A r \in Reqs :
        (reqs[r].pc = "done" /\ reqs[r].inbound.method = "OPTIONS")
        => reqs[r].resp = OptionsResponse

\* C17 (amended): the path is classified first.  An OPTIONS request to one
\* of the five paths gets the CORS headers with no body, whatever its fields
\* and body, and has touched nothing; an OPTIONS request to any other path
\* gets the 404 of the unmatched path.
C17_OptionsAfterPathOnly ==
    /\ [](\A inb \in Inbounds(endpoint) :
            inb.method = "OPTIONS"
            => EarlyReturn(endpoint, inb)
                 = IF inb.path = "matched" THEN OptionsResponse ELSE NotFound)
    /\ [](\A r \in Reqs :
            (reqs[r].pc = "done" /\ reqs[r].inbound.method = "OPTIONS")
            => /\ Untouched(r)
               /\ reqs[r].inbound.path = "matched"
                  => /\ reqs[r].resp.status = 200
                     /\ reqs[r].resp.body = [empty |-> TRUE]
                     /\ reqs[r].resp.headers = CorsHeaders
               /\ reqs[r].inbound.path # "matched"
                  => /\ reqs[r].resp.status = 404
                     /\ reqs[r].resp.headers \cap CorsHeaders = {})
    /\ [][\A r \in Reqs : AnsweredAtOnce(r)]_vars

\* Two OPTIONS requests have been answered: one to a matched path, without
\* its fields, with the CORS headers; one to another path with the 404.
C17_Witness ==
    \E r, q \in Reqs :
        /\ reqs[r].inbound.method = "OPTIONS" /\ reqs[r].resp = OptionsResponse
        /\ "shop" \notin reqs[r].inbound.fields /\ ~reqs[r].inbound.sortable
        /\ reqs[q].inbound.method = "OPTIONS" /\ reqs[q].resp.status = 404

\* C18 as stated: every response carries X-Cache with one of the four
\* values, X-Response-Time and the CORS headers.
C18_EveryResponseTagged ==
    \A r \in Reqs :
        reqs[r].pc = "done"
        => /\ reqs[r].resp.xcache \in {"HIT", "MISS", "STALE", "BYPASS"}
           /\ ({"X-Cache", "X-Response-Time"} \cup CorsHeaders)
                \subseteq reqs[r].resp.headers

\* C18 (amended): a response is one of four kinds.  A 200 with a payload
\* carries X-Cache with one of the four values, X-Response-Time and the CORS
\* headers; a 400, 405, 500 or 503 carries X-Response-Time and the CORS
\* headers and no X-Cache; the answer to OPTIONS carries the CORS headers
\* only; the 404 of an unmatched path carries none of them.
C18_HeadersByConstructor ==
    \A r \in Reqs :
        reqs[r].pc = "done"
        => LET resp == reqs[r].resp IN
           \/ /\ resp.status = 200 /\ DOMAIN resp.body = {"payload"}
              /\ resp.xcache \in {"HIT", "MISS", "STALE", "BYPASS"}
              /\ ({"X-Cache", "X-Response-Time"} \cup CorsHeaders)
                   \subseteq resp.headers
           \/ /\ resp.status \in {400, 405, 500, 503}
              /\ resp.xcache = "none" /\ "X-Cache" \notin resp.headers
              /\ ({"X-Response-Time"} \cup CorsHeaders) \subseteq resp.headers
           \/ /\ resp = OptionsResponse
              /\ resp.headers = CorsHeaders
           \/ /\ resp = NotFound
              /\ resp.headers
                   \cap ({"X-Cache", "X-Response-Time"} \cup CorsHeaders) = {}

\* A 200 tagged MISS and a 400 without X-Cache have both been returned.
C18_Witness ==
    \E r, q \in Reqs :
        /\ reqs[r].pc = "done" /\ reqs[r].resp.xcache = "MISS"
        /\ "X-Cache" \in reqs[r].resp.headers
        /\ reqs[q].pc = "done" /\ reqs[q].resp.status = 400
        /\ "X-Cache" \notin reqs[q].resp.headers
        /\ "X-Response-Time" \in reqs[q].resp.headers

\* The messages of the error envelopes.
ErrorMessages ==
    {"Method not allowed", "Invalid request parameters", "Invalid URL format",
     "Missing shop or product handle", "Internal server error",
     "Origin unavailable", TimeoutMessage(endpoint)}

\* C19 as stated: every response that is not a success has a status among
\* 400, 405, 503 and 500 and the body {success:false, error:<message>}.
C19_ErrorsAreEnvelopes ==
    \A r \in Reqs :
        (reqs[r].pc = "done" /\ reqs[r].resp.status # 200)
        => /\ reqs[r].resp.status \in {400, 405, 503, 500}
           /\ \E m \in ErrorMessages : reqs[r].resp.body = ErrorBody(m)

\* C19 (amended): a response that is not a 200 is either the JSON envelope
\* {success:false, error:<message>} with status 400, 405, 500 or 503, or the
\* answer to an unmatched path, which is a 404 with the text body
\* 'Not found'; the 404 is given to every request to an unmatched path and
\* to no other, and an exception in a handler gives the 500 envelope.
C19_EnvelopeOrNotFound ==
    /\ [](\A r \in Reqs :
            (reqs[r].pc = "done" /\ reqs[r].resp.status # 200)
            => \/ /\ reqs[r].resp.status \in {400, 405, 500, 503}
                  /\ \E m \in ErrorMessages : reqs[r].resp.body = ErrorBody(m)
                  /\ reqs[r].inbound.path = "matched"
               \/ /\ reqs[r].resp = NotFound
                  /\ reqs[r].resp.body = [text |-> "Not found"]
                  /\ reqs[r].inbound.path # "matched")
    /\ [](\A r \in Reqs :
            (reqs[r].pc = "done" /\ reqs[r].inbound.path # "matched")
            => reqs[r].resp.status = 404)
    /\ [](\A inb \in Inbounds(endpoint) :
            (/\ inb.path = "matched" /\ inb.method = EndpointMethod(endpoint)
             /\ Validate(endpoint, inb) = ""
             /\ KeyGenerationThrows(endpoint, inb))
            => EarlyReturn(endpoint, inb)
                 = createErrorResponse("Internal server error", 500))

\* A key generator that threw has been answered with the 500 envelope and a
\* request to an unmatched path with the 404 text.
C19_Witness ==
    \E r, q \in Reqs :
        /\ reqs[r].resp.status = 500
        /\ reqs[r].resp.body = ErrorBody("Internal server error")
        /\ ~reqs[r].inbound.sortable
        /\ reqs[q].resp = NotFound /\ reqs[q].inbound.method = "GET"

\* C20 as stated: two bodies that differ only in the order in which a
\* collection was submitted get the same cache key, on every endpoint and
\* for every collection, items that share the sort field included.
C20_SameKeyForEveryOrder ==
    probe.fn = "generateCacheKey" => probe.result[1] = probe.result[2]

\* The fields the non-collision property names, where the endpoint has
\* them, and what it is for two collections to have the same contents.
CacheRelevantFields ==
    {"shop", "type", "productId", "productHandle", "layout", "limit"}
SameContents(c, d) == d \in Reorderings(c)
KeyPairProbed == probe.fn = "generateCacheKeyOfBody"

\* C21: two validated requests to the same endpoint that differ in the
\* value of shop, type, a product identifier, layout or limit, or in the
\* contents of the keyed collection, get different cache keys (the digest
\* being injective).
C21_DifferentFieldDifferentKey ==
    KeyPairProbed =>
        LET first  == probe.args[1]
            second == probe.args[2]
        IN (\/ \E f \in CacheRelevantFields : first[f] # second[f]
            \/ ~SameContents(first.items, second.items))
              => probe.result[1] # probe.result[2]

\* Two product requests that differ in the limit alone, one of them with a
\* limit that is not a number, their collection submitted out of order.
C21_Witness ==
    /\ KeyPairProbed
    /\ endpoint = "product"
    /\ probe.args[1].limit = NaN
    /\ probe.args[2].limit = 1
    /\ probe.args[1].items = <<[id |-> 10, rest |-> 0], [id |-> 2, rest |-> 0]>>
    /\ probe.args[2].items = probe.args[1].items
    /\ probe.result[1] # probe.result[2]

\* No two endpoints have a key string in common, whatever the digests.
KeyStringsApart ==
    \A ep \in Endpoints : \A other \in Endpoints \ {ep} :
       \A d \in HexStrings(DigestLen), e \in HexStrings(DigestLen) :
          KeyString(ep, d) # KeyString(other, e)

\* C22: keys of different endpoints are never equal: each starts with the
\* prefix of its endpoint, and the requests of one endpoint leave the cache
\* entries and the in-flight entries under the keys of the others alone.
C22_EndpointsKeptApart ==
    /\ KeyStringsApart
    /\ \A r \in Reqs : Keyed(r) => KeyOf(r)[1] = KeyPrefix(endpoint)
    /\ \A k \in Keys : k[1] # KeyPrefix(endpoint) =>
          /\ store[k].entry = NoEntry
          /\ inFlight[k] = 0
          /\ \A w \in puts : w.key # k

\* One request's call is registered while the entry an earlier one wrote is
\* in the store, both under keys of the endpoint.
C22_Witness ==
    \E r \in Reqs, k \in Keys :
       /\ reqs[r].pc = "fetching"
       /\ inFlight[KeyOf(r)] = r
       /\ k[1] = KeyPrefix(endpoint)
       /\ store[k].entry # NoEntry

\* C23: computing a cache key has no side effects: the validated body is
\* unchanged by it, and the request forwarded to the origin carries the
\* collection (excludeProductIds, cart products, cart items, upsell items)
\* in the order the client submitted it.
C23_KeyLeavesBodyAlone ==
    (probe.fn = "forward" /\ endpoint # "handle") =>
        /\ probe.result[1] = probe.args[1]
        /\ "items" \in DOMAIN probe.result[2]
        /\ probe.result[2].items = probe.args[1].items

\* The request, whose inbound form is followed, passed the router, the
\* method check and the validation of its endpoint.
Validated(r) ==
    /\ reqs[r].pc # "idle"
    /\ reqs[r].inbound.path = "matched"
    /\ reqs[r].inbound.method = EndpointMethod(endpoint)
    /\ Validate(endpoint, reqs[r].inbound) = ""

\* C24: key computation is total over the validated requests: a request
\* that passes the validation of its endpoint gets a key and never ends in
\* a 500 because the key could not be generated.
C24_KeyForEveryValidated ==
    \A r \in Reqs : Validated(r) =>
        /\ reqs[r].role # "rejected"
        /\ reqs[r].resp.status # 500

\* C25: a cache read that fails, or whose payload is not a valid entry, is
\* handled like an absent entry: no entry without a valid write time is
\* served as HIT, and the failure never becomes an error response.
C25_ReadFailureIsAbsence ==
    \A r \in Reqs :
       /\ reqs[r].role = "hit" => reqs[r].cached.timestamp \in Nat
       /\ (reqs[r].pc = "done" /\ reqs[r].role # "registrant"
             /\ reqs[r].role # "joiner" /\ reqs[r].role # "bypass")
            => reqs[r].resp.status = 200

\* The write the fetch of request r scheduled.
WriteOf(r) == {w \in puts : w.entry.by = r}

\* C26: the cache write is not on the critical path of the request: the
\* MISS response is returned while the write is still pending, a write that
\* lands or fails changes no request, and a response once returned stays
\* as it is whatever becomes of the write.
C26_WriteOffCriticalPath ==
    [][/\ \A r \in Reqs :
             (reqs[r].pc = "fetching" /\ reqs'[r].pc = "done"
                /\ reqs'[r].outcome = "ok" /\ Keyed(r))
               => /\ reqs'[r].resp.status = 200
                  /\ reqs'[r].resp.xcache = "MISS"
                  /\ reqs'[r].resp.body = JsonBody(reqs'[r].fetched)
                  /\ \E w \in puts' : w.entry.by = r /\ w \notin puts
                  /\ store' = store
       /\ (puts' # puts /\ puts' \subseteq puts) => reqs' = reqs
       /\ \A r \in Reqs :
             reqs[r].pc = "done" => reqs'[r].resp = reqs[r].resp
      ]_vars

\* A request was answered MISS and its write has failed: the store has no
\* entry for its key and the response is the one that was returned.
C26_Witness ==
    \E r \in Reqs :
       /\ reqs[r].pc = "done"
       /\ reqs[r].role = "registrant"
       /\ reqs[r].resp.status = 200
       /\ reqs[r].resp.xcache = "MISS"
       /\ WriteOf(r) = {}
       /\ store[KeyOf(r)].entry = NoEntry

\* C27: the access headers are attached to an origin call only when the
\* host of the configured origin is one of the protected hosts, and never
\* on the call of the handle endpoint.
C27_AccessHeadersOnlyToProtectedHosts ==
    (probe.fn = "originHeaders"
       /\ probe.result[2] \cap AccessHeaders # {})
      => /\ probe.result[1] \in ProtectedHosts
         /\ endpoint # "handle"

\* C28: stale-while-revalidate: a request whose read finds a stale entry is
\* answered with the stale content while the fresh data is fetched, so it
\* is never waiting for an origin call, its own or one it joined.
C28_StaleServedWithoutWaiting ==
    \A r \in Reqs :
       (Keyed(r) /\ reqs[r].cached # NoEntry /\ isStale(reqs[r].cached, now))
         => reqs[r].pc \notin {"fetching", "joined"}

\* The instances followed, and the origin calls outstanding for a key on
\* the first of them.
Instances == Cardinality({"first", "second"})
LocalCalls(k) == {r \in Reqs : Outstanding(r) /\ KeyOf(r) = k}

\* C29: coalescing is scoped to one instance: with two instances on one
\* store, the origin calls outstanding for a key never exceed the number of
\* instances (and both instances can have one outstanding at once).
C29_OneCallPerInstance ==
    \A k \in Keys :
       /\ Cardinality(LocalCalls(k)) <= 1
       /\ remote.calls[k] <= 1
       /\ Cardinality(LocalCalls(k)) + remote.calls[k] <= Instances

\* Both instances have an origin call outstanding for the same key.
C29_Witness ==
    \E k \in Keys :
       /\ Cardinality(LocalCalls(k)) = 1
       /\ remote.calls[k] = 1
       /\ \E r \in LocalCalls(k) : inFlight[k] = r

\* C30: every request that starts an origin call eventually receives a
\* response and its in-flight entry is eventually removed, also when the
\* origin never answers or stalls after it has begun to answer.
C30_EveryCallAnswered ==
    \A r \in Reqs :
       (reqs[r].role = "registrant" /\ reqs[r].pc # "done")
         ~> (reqs[r].pc = "done" /\ inFlight[KeyOf(r)] # r)

\* C31: without a fallback the 503 tells the cause: the message is the
\* timeout message of the endpoint when the origin call was aborted by the
\* timeout, and Origin unavailable for every other origin failure.
C31_MessageTellsTheCause ==
    probe.fn = "catch" =>
        /\ probe.result.status = 503
        /\ probe.result.body =
              ErrorBody(IF probe.args[1].kind = "timeout"
                        THEN TimeoutMessage(endpoint)
                        ELSE "Origin unavailable")

\* The storefront requests with actionType that have arrived, and the
\* origin calls made for a set of requests.
ActionRequests == {r \in Reqs : reqs[r].pc # "idle" /\ reqs[r].action}
RECURSIVE OriginCalls(_)
OriginCalls(S) ==
    IF S = {} THEN 0
    ELSE LET r == CHOOSE x \in S : TRUE
         IN reqs[r].calls + OriginCalls(S \ {r})

\* C32: requests with actionType are never coalesced: N of them, identical
\* bodies or not, cause exactly N origin calls, one each, and the response
\* of each is built from what its own call returned.
C32_ActionsNeverCoalesced ==
    /\ OriginCalls(ActionRequests) = Cardinality(ActionRequests)
    /\ \A r \in ActionRequests :
          /\ reqs[r].calls = 1
          /\ reqs[r].role # "joiner" /\ reqs[r].joined = 0
          /\ \A q \in Reqs : reqs[q].joined # r
          /\ reqs[r].pc = "fetching" => reqs[r].resp = NoResponse
          /\ (reqs[r].pc = "done" /\ reqs[r].outcome = "ok")
                => reqs[r].resp = OriginSuccessResponse(
                      CHOOSE o \in OriginResponses : o.data = reqs[r].fetched,
                      FALSE)

\* Three requests with actionType and the same body: two were answered
\* from their own calls, with different payloads, while the call of the
\* third is still outstanding.
C32_Witness ==
    \E r, q, z \in ActionRequests :
       /\ reqs[r].body = reqs[q].body /\ reqs[q].body = reqs[z].body
       /\ reqs[r].pc = "done" /\ reqs[q].pc = "done"
       /\ reqs[r].resp.status = 200 /\ reqs[q].resp.status = 200
       /\ reqs[r].resp.body # reqs[q].resp.body
       /\ reqs[z].pc = "fetching"
       /\ OriginCalls({r, q, z}) = MaxReqs

\* C33: on every endpoint two requests with different shop values have
\* different cache keys, so a response cached or in flight for one shop is
\* never returned to a request of another shop.
C33_ShopsNeverShareKey ==
    (KeyPairProbed /\ probe.args[1].shop # probe.args[2].shop)
      => /\ probe.result[1] # probe.result[2]
         /\ probe.result[1][1] = KeyPrefix(endpoint)
         /\ probe.result[2][1] = KeyPrefix(endpoint)
         /\ probe.result[1][2].shop = probe.args[1].shop
         /\ probe.result[2][2].shop = probe.args[2].shop

\* Two storefront requests for the same cart, from different shops.
C33_Witness ==
    /\ KeyPairProbed
    /\ endpoint = "storefront"
    /\ probe.args[1].shop = 1 /\ probe.args[2].shop = 2
    /\ probe.args[1].cartToken = 1 /\ probe.args[2].cartToken = 1
    /\ Len(probe.args[1].items) = MaxKeyedItems
    /\ probe.args[1].items = probe.args[2].items
    /\ probe.result[1] # probe.result[2]

\* A path of the form /recommendations/handle/{shop}/{productHandle}.
HandleForm(pathname) ==
    /\ Len(pathname) = Len(HandlePrefix) + 2
    /\ SubSeq(pathname, 1, Len(HandlePrefix)) = HandlePrefix

\* C34: each path is classified into exactly one endpoint (or none), and a
\* path of the handle form is dispatched to the handle handler whatever its
\* shop and productHandle segments are.
C34_HandlePathsReachHandleHandler ==
    probe.fn = "route" =>
        /\ probe.result \in Endpoints \cup {"unmatched"}
        /\ HandleForm(probe.args[1]) => probe.result = "handle"

\* What the origin is sent for a validated body, its key having been
\* generated first.
OriginRequestOf(body) ==
    ForwardedRequest(endpoint, BodyAfterKey(endpoint, body))

\* C35: two product or cart requests that cause different requests to the
\* origin never share a cache key: every forwarded field, cartToken
\* included, is part of the key.
C35_SameKeySameOriginRequest ==
    (KeyPairProbed /\ endpoint \in {"product", "cart"}
       /\ probe.result[1] = probe.result[2])
      => OriginRequestOf(probe.args[1]) = OriginRequestOf(probe.args[2])

\* The request whose origin call produced the response of r: r itself, or
\* the request whose promise r awaited.
CallerOf(r) == IF reqs[r].role = "joiner" THEN reqs[r].joined ELSE r

\* C36: the cache-status tag of every 200 is sound.  HIT: the request read
\* a fresh entry and no origin call was made for it.  MISS: an origin call
\* for the key of the request succeeded.  STALE: the origin call failed and
\* the request that made it had read an entry.  BYPASS: a storefront
\* request with actionType whose own call succeeded.
C36_TagsAreSound ==
    /\ [](\A r \in Reqs :
            (reqs[r].pc = "done" /\ reqs[r].resp.status = 200) =>
               LET c == CallerOf(r) IN
               /\ reqs[r].resp.xcache \in {"HIT", "MISS", "STALE", "BYPASS"}
               /\ reqs[r].resp.xcache = "HIT" =>
                     /\ reqs[r].role = "hit"
                     /\ reqs[r].cached # NoEntry
                     /\ reqs[r].calls = 0 /\ reqs[r].joined = 0
                     /\ reqs[r].resp.body = JsonBody(reqs[r].cached.data)
               /\ reqs[r].resp.xcache = "MISS" =>
                     /\ SameKey(r, c)
                     /\ reqs[c].calls = 1 /\ reqs[c].outcome = "ok"
                     /\ reqs[r].resp.body = JsonBody(reqs[c].fetched)
               /\ reqs[r].resp.xcache = "STALE" =>
                     /\ SameKey(r, c)
                     /\ reqs[c].calls = 1 /\ reqs[c].outcome = "failed"
                     /\ reqs[c].cached # NoEntry
                     /\ reqs[r].resp.body = JsonBody(reqs[c].cached.data)
               /\ reqs[r].resp.xcache = "BYPASS" =>
                     /\ endpoint = "storefront" /\ reqs[r].action
                     /\ reqs[r].calls = 1 /\ reqs[r].outcome = "ok"
                     /\ reqs[r].resp.body = JsonBody(reqs[r].fetched))
    /\ [][\A r \in Reqs :
            (reqs[r].pc # "done" /\ reqs'[r].pc = "done"
               /\ reqs'[r].resp.xcache = "HIT")
              => /\ reqs'[r].cached = KvGet(KeyOf(r), now)
                 /\ ~isStale(reqs'[r].cached, now)]_vars

\* One request was answered MISS; more than an hour later a second one read
\* its entry, called the origin and failed, and it and a third that joined
\* it were answered STALE.
C36_Witness ==
    \E r, q, z \in Reqs :
       /\ reqs[r].pc = "done" /\ reqs[r].resp.xcache = "MISS"
       /\ reqs[q].pc = "done" /\ reqs[q].resp.xcache = "STALE"
       /\ reqs[q].role = "registrant" /\ reqs[q].cached.by = r
       /\ reqs[z].pc = "done" /\ reqs[z].resp.xcache = "STALE"
       /\ reqs[z].role = "joiner" /\ reqs[z].joined = q

\* The entries the store holds or is about to be handed.
WrittenEntries ==
    {store[k].entry : k \in Keys} \cup {w.entry : w \in puts}

\* C37: an origin failure leaves the cache store unchanged.  The step in
\* which an origin call fails schedules no write and changes no entry, and
\* every entry written or pending carries the payload a successful call of
\* its writer fetched, stamped no later than now.
C37_FailureLeavesStoreUnchanged ==
    /\ [](\A e \in WrittenEntries \ {NoEntry} :
            /\ reqs[e.by].outcome = "ok"
            /\ e.data = reqs[e.by].fetched
            /\ e.timestamp \in 0..now)
    /\ [][\A r \in Reqs :
            (reqs[r].outcome # "failed" /\ reqs'[r].outcome = "failed")
              => puts' = puts /\ store' = store]_vars

\* A request was served the stale entry as fallback after its origin call
\* failed; the store still holds that entry with its payload and original
\* timestamp, and no write is pending.
C37_Witness ==
    \E r \in Reqs :
       /\ reqs[r].pc = "done" /\ reqs[r].outcome = "failed"
       /\ reqs[r].resp.xcache = "STALE"
       /\ store[KeyOf(r)].entry = reqs[r].cached
       /\ now - reqs[r].cached.timestamp > ONE_HOUR
       /\ puts = {}

\* The requests that hold the map entry of key k: registered, call pending.
Holders(k) ==
    {r \in Reqs : /\ reqs[r].pc = "fetching" /\ reqs[r].role = "registrant"
                  /\ KeyOf(r) = k}

\* C38: the in-flight map never leaks.  Every key it holds is held by one
\* request, which registered it and has not returned, and the map names
\* that request; with no request in progress the map is empty.
C38_MapNeverLeaks ==
    /\ \A k \in Keys :
          inFlight[k] # 0 => Holders(k) = {inFlight[k]}
    /\ (\A r \in Reqs : reqs[r].pc \in {"idle", "done"})
          => \A k \in Keys : inFlight[k] = 0

\* Two requests registered (one alone, one joined by a third) and all three
\* have returned: the map is empty again.
C38_Witness ==
    /\ \A r \in Reqs : reqs[r].pc = "done"
    /\ Cardinality({r \in Reqs : reqs[r].role = "registrant"}) = 2
    /\ \E r \in Reqs : reqs[r].role = "joiner"
    /\ \A k \in Keys : inFlight[k] = 0

====
